---- MODULE Spec2Model ----
(***************************************************************************)
(* PlotCraft: the geometry generators of the pen-plotter pattern pages.    *)
(* One page is mounted at a time; each page has its own specification.     *)
(*   SpecMaze / FairMaze  maze-generator/page.tsx (carving, solving,       *)
(*                        export)                                          *)
(*   SpecSolve            findSolutionPath on arbitrary symmetric grids    *)
(*   SpecWaves            wireframe-waves/page.tsx (draw and exportSVG)    *)
(*   SpecSketch           voronoi-diagram, abstract-boxes,                 *)
(*                        mountain-generator and wormhole pages            *)
(*   SpecFilter           the minimum-distance filter of voronoi-diagram   *)
(*   SpecProject          project3DTo2D and the export loop of the 3D      *)
(*                        pages on arbitrary cached segments               *)
(*   SpecResolve          findSolutionPath called again on a solved grid   *)
(*   SpecTiling           the tiling patterns page (draw and exportSVG)    *)
(* Real numbers are fixed-point integers: lengths in tenths of a pixel     *)
(* (thousandths on the tiling page), angles and sines in thousandths,      *)
(* perspective scales in hundredths.                                       *)
(***************************************************************************)
EXTENDS Integers, Sequences, FiniteSets, TLC

VARIABLES
  \* ---- maze-generator/page.tsx ----
  density,        \* useState(10): cells per side
  grid,           \* useState<Grid>([]): the stored grid
  solutionPath,   \* useState<Point[]>([])
  svgChildren,    \* the child nodes of the <svg> element (svgRef.current)
  showSolution,   \* useState(true)
  aspectRatio,    \* useState('1:1'); mazeDisplayWidth and -Height follow it
  newGrid,        \* recursiveBacktracker's local grid (aliased by the stored grid)
  stack,          \* recursiveBacktracker's stack of cells
  currentCell,    \* recursiveBacktracker's current cell
  pc,             \* position of the page's code
  solveStart,     \* startCell of the last findSolutionPath call, or null
  solveEnd,       \* endCell of the last findSolutionPath call, or null
  emitted,        \* the document the last handler downloaded, or NoDoc
  logged,         \* the diagnostic the last handler logged, or NoLog
  \* ---- the p5 sketch pages (waves, voronoi, boxes, mountain, wormhole) ----
  page,           \* the page that is mounted
  p5Ready,        \* p5Instance.current is set (setup has run)
  angleMode,      \* p5's angle mode
  params,         \* the page's parameter state
  rendered,       \* what the last draw put on the canvas
  seed,           \* useState seed of the voronoi, boxes, mountain, wormhole pages
  generatedBoxesCache,  \* boxes: generatedBoxesCache.current
  lineSegmentsCache,    \* mountain, wormhole: lineSegmentsCache.current
  sites,          \* voronoi: sites.current
  delaunay,       \* voronoi: delaunay.current
  voronoi,        \* voronoi: voronoi.current
  uMVMatrix,      \* the WEBGL renderer's model-view matrix, null before setup
  uPMatrix,       \* the WEBGL renderer's projection matrix, null before setup
  randomState     \* the state of p5's seeded generator, null while unseeded

mazeVars == <<density, grid, solutionPath, svgChildren, showSolution, aspectRatio, newGrid, stack,
              currentCell, pc, solveStart, solveEnd, emitted, logged>>

sketchVars == <<page, p5Ready, angleMode, params, rendered, seed, generatedBoxesCache,
                lineSegmentsCache, sites, delaunay, voronoi, uMVMatrix, uPMatrix,
                randomState>>

vars == <<mazeVars, sketchVars>>

\* ------------------------------------------------------------------------
\* Bounds of the model
\* ------------------------------------------------------------------------
MaxDensity == 3
MaxBoxes == 2
MaxMeshResolution == 6
MaxGridDensity == 5
MaxPoints == 4
MaxFilterPoints == 3
MaxSegments == 2
MaxClosedWalls == 2

\* ------------------------------------------------------------------------
\* Program constants
\* ------------------------------------------------------------------------
\* The density slider's minimum: the smallest grid the page generates.
MinDensity == 3

\* The minimum of the mountain page's two grid resolution sliders.
MinMeshResolution == 5

\* The minimum of the wormhole page's two grid density sliders.
MinGridDensity == 4

\* The minimum of the voronoi page's number-of-points slider.
MinPoints == 3

\* ------------------------------------------------------------------------
\* Values
\* ------------------------------------------------------------------------
null == <<>>
NoDoc == [kind |-> "none"]
NoLog == "none"

\* ------------------------------------------------------------------------
\* Maze: grid and cells (interface Cell, type Grid)
\* ------------------------------------------------------------------------
Coords(size) == {<<x, y>> : x \in 0..(size - 1), y \in 0..(size - 1)}

EmptyGrid == [c \in {} |-> null]

\* grid.length of a square grid
GridLength(g) == CHOOSE n \in 0..Cardinality(DOMAIN g) : n * n = Cardinality(DOMAIN g)

initializeGrid(size) ==
  [c \in Coords(size) |->
     [x |-> c[1], y |-> c[2],
      walls |-> [top |-> TRUE, right |-> TRUE, bottom |-> TRUE, left |-> TRUE],
      visited |-> FALSE,
      visitedForSolution |-> FALSE,
      parent |-> null]]

\* A getUnvisitedNeighbors whose bound on the right is off by one.
getUnvisitedNeighborsShortRight(cell, currentGrid, size) ==
  LET x == cell[1]
      y == cell[2]
      top    == IF y > 0 /\ ~currentGrid[<<x, y - 1>>].visited
                THEN << <<x, y - 1>> >> ELSE << >>
      right  == IF x < size - 2 /\ ~currentGrid[<<x + 1, y>>].visited
                THEN << <<x + 1, y>> >> ELSE << >>
      bottom == IF y < size - 1 /\ ~currentGrid[<<x, y + 1>>].visited
                THEN << <<x, y + 1>> >> ELSE << >>
      left   == IF x > 0 /\ ~currentGrid[<<x - 1, y>>].visited
                THEN << <<x - 1, y>> >> ELSE << >>
  IN top \o right \o bottom \o left

\* A getUnvisitedNeighbors that takes the cell above whether visited or not.
getUnvisitedNeighborsAnyTop(cell, currentGrid, size) ==
  LET x == cell[1]
      y == cell[2]
      top    == IF y > 0 THEN << <<x, y - 1>> >> ELSE << >>
      right  == IF x < size - 1 /\ ~currentGrid[<<x + 1, y>>].visited
                THEN << <<x + 1, y>> >> ELSE << >>
      bottom == IF y < size - 1 /\ ~currentGrid[<<x, y + 1>>].visited
                THEN << <<x, y + 1>> >> ELSE << >>
      left   == IF x > 0 /\ ~currentGrid[<<x - 1, y>>].visited
                THEN << <<x - 1, y>> >> ELSE << >>
  IN top \o right \o bottom \o left

\* The unvisited neighbours of a cell, in the order top, right, bottom, left.
getUnvisitedNeighbors(cell, currentGrid, size) ==
  LET x == cell[1]
      y == cell[2]
      top    == IF y > 0 /\ ~currentGrid[<<x, y - 1>>].visited
                THEN << <<x, y - 1>> >> ELSE << >>
      right  == IF x < size - 1 /\ ~currentGrid[<<x + 1, y>>].visited
                THEN << <<x + 1, y>> >> ELSE << >>
      bottom == IF y < size - 1 /\ ~currentGrid[<<x, y + 1>>].visited
                THEN << <<x, y + 1>> >> ELSE << >>
      left   == IF x > 0 /\ ~currentGrid[<<x - 1, y>>].visited
                THEN << <<x - 1, y>> >> ELSE << >>
  IN top \o right \o bottom \o left

\* A removeWall without the branch for a neighbour below.
removeWallForgetsBelow(g, current, next) ==
  LET dx == current[1] - next[1]
      dy == current[2] - next[2]
      g1 == IF dx = 1
            THEN [g EXCEPT ![current].walls.left = FALSE, ![next].walls.right = FALSE]
            ELSE IF dx = -1
            THEN [g EXCEPT ![current].walls.right = FALSE, ![next].walls.left = FALSE]
            ELSE g
  IN IF dy = 1
     THEN [g1 EXCEPT ![current].walls.top = FALSE, ![next].walls.bottom = FALSE]
     ELSE g1

\* A removeWall that clears the flag of the current cell only.
removeWallOneSided(g, current, next) ==
  LET dx == current[1] - next[1]
      dy == current[2] - next[2]
      g1 == IF dx = 1 THEN [g EXCEPT ![current].walls.left = FALSE]
            ELSE IF dx = -1 THEN [g EXCEPT ![current].walls.right = FALSE]
            ELSE g
  IN IF dy = 1 THEN [g1 EXCEPT ![current].walls.top = FALSE]
     ELSE IF dy = -1 THEN [g1 EXCEPT ![current].walls.bottom = FALSE]
     ELSE g1

\* removeWall(current, next): clears the wall on both sides.
removeWall(g, current, next) ==
  LET dx == current[1] - next[1]
      dy == current[2] - next[2]
      g1 == IF dx = 1
            THEN [g EXCEPT ![current].walls.left = FALSE, ![next].walls.right = FALSE]
            ELSE IF dx = -1
            THEN [g EXCEPT ![current].walls.right = FALSE, ![next].walls.left = FALSE]
            ELSE g
  IN IF dy = 1
     THEN [g1 EXCEPT ![current].walls.top = FALSE, ![next].walls.bottom = FALSE]
     ELSE IF dy = -1
     THEN [g1 EXCEPT ![current].walls.bottom = FALSE, ![next].walls.top = FALSE]
     ELSE g1

\* ------------------------------------------------------------------------
\* Maze: findSolutionPath (breadth-first search)
\* ------------------------------------------------------------------------
\* A reset that leaves the cells as they are.
ResetSolveFlagsSkipped(g) == g

\* A reset that clears the carving flag as well.
ResetSolveFlagsAndVisited(g) ==
  [c \in DOMAIN g |-> [g[c] EXCEPT !.visited = FALSE, !.visitedForSolution = FALSE,
                                   !.parent = null]]

\* Lines 159-164: reset the solve flags and the parent links.
ResetSolveFlags(g) ==
  [c \in DOMAIN g |-> [g[c] EXCEPT !.visitedForSolution = FALSE, !.parent = null]]

\* Neighbours not yet visited by the solve, whatever the walls.
OpenNeighborsThroughWalls(g, size, current) ==
  LET x == current[1]
      y == current[2]
      top    == IF y > 0 /\ ~g[<<x, y - 1>>].visitedForSolution
                THEN << <<x, y - 1>> >> ELSE << >>
      right  == IF x < size - 1 /\ ~g[<<x + 1, y>>].visitedForSolution
                THEN << <<x + 1, y>> >> ELSE << >>
      bottom == IF y < size - 1 /\ ~g[<<x, y + 1>>].visitedForSolution
                THEN << <<x, y + 1>> >> ELSE << >>
      left   == IF x > 0 /\ ~g[<<x - 1, y>>].visitedForSolution
                THEN << <<x - 1, y>> >> ELSE << >>
  IN top \o right \o bottom \o left

\* Lines 179-193: neighbours through an open wall, not yet visited by the solve.
OpenNeighbors(g, size, current) ==
  LET x == current[1]
      y == current[2]
      walls == g[current].walls
      top    == IF y > 0 /\ ~walls.top /\ ~g[<<x, y - 1>>].visitedForSolution
                THEN << <<x, y - 1>> >> ELSE << >>
      right  == IF x < size - 1 /\ ~walls.right /\ ~g[<<x + 1, y>>].visitedForSolution
                THEN << <<x + 1, y>> >> ELSE << >>
      bottom == IF y < size - 1 /\ ~walls.bottom /\ ~g[<<x, y + 1>>].visitedForSolution
                THEN << <<x, y + 1>> >> ELSE << >>
      left   == IF x > 0 /\ ~walls.left /\ ~g[<<x - 1, y>>].visitedForSolution
                THEN << <<x - 1, y>> >> ELSE << >>
  IN top \o right \o bottom \o left

\* Lines 195-199: mark every neighbour, link it to current, enqueue it.
RECURSIVE EnqueueAll(_, _, _, _)
EnqueueAll(g, q, neighbors, current) ==
  IF neighbors = << >> THEN [g |-> g, q |-> q]
  ELSE LET n == Head(neighbors)
       IN EnqueueAll([g EXCEPT ![n].visitedForSolution = TRUE, ![n].parent = current],
                     Append(q, n), Tail(neighbors), current)

\* A search that takes the newest cell of the queue (q.pop()).
PopNewest(q) == [cell |-> q[Len(q)], rest |-> SubSeq(q, 1, Len(q) - 1)]

\* q.shift(): the oldest cell of the queue, and what is left of the queue.
Shift(q) == [cell |-> Head(q), rest |-> Tail(q)]

\* Lines 171-200: the search loop; returns the grid and whether the end was found.
RECURSIVE SearchLoop(_, _, _, _)
SearchLoop(g, size, q, endCell) ==
  IF q = << >> THEN [g |-> g, solutionFound |-> FALSE]
  ELSE LET current == Shift(q).cell
           rest == Shift(q).rest
       IN IF current[1] = endCell[1] /\ current[2] = endCell[2]
          THEN [g |-> g, solutionFound |-> TRUE]
          ELSE LET r == EnqueueAll(g, rest, OpenNeighbors(g, size, current), current)
               IN SearchLoop(r.g, size, r.q, endCell)

\* Lines 204-208: walk the parent links from the end cell (collected end first).
RECURSIVE WalkParents(_, _)
WalkParents(g, curr) ==
  IF g[curr].parent # null
  THEN << [x |-> curr[1], y |-> curr[2]] >> \o WalkParents(g, g[curr].parent)
  ELSE << >>

Reverse(s) == [i \in 1..Len(s) |-> s[Len(s) + 1 - i]]

\* A findSolutionPath that walks the parent links whether or not the search
\* found the end cell.
findSolutionPathUnchecked(currentGrid, startCell, endCell) ==
  IF GridLength(currentGrid) = 0 THEN [g |-> currentGrid, path |-> << >>]
  ELSE LET size == GridLength(currentGrid)
           g0 == ResetSolveFlags(currentGrid)
           g1 == [g0 EXCEPT ![startCell].visitedForSolution = TRUE]
           s == SearchLoop(g1, size, << startCell >>, endCell)
       IN [g |-> s.g,
           path |-> Reverse(WalkParents(s.g, endCell)
                            \o << [x |-> startCell[1], y |-> startCell[2]] >>)]

\* A findSolutionPath that does not add the start cell to the walked path.
findSolutionPathDropsStart(currentGrid, startCell, endCell) ==
  IF GridLength(currentGrid) = 0 THEN [g |-> currentGrid, path |-> << >>]
  ELSE LET size == GridLength(currentGrid)
           g0 == ResetSolveFlags(currentGrid)
           g1 == [g0 EXCEPT ![startCell].visitedForSolution = TRUE]
           s == SearchLoop(g1, size, << startCell >>, endCell)
       IN IF s.solutionFound
          THEN [g |-> s.g, path |-> Reverse(WalkParents(s.g, endCell))]
          ELSE [g |-> s.g, path |-> << >>]

\* findSolutionPath(currentGrid, startCell, endCell): the grid as the solve
\* leaves it and the returned path.
findSolutionPath(currentGrid, startCell, endCell) ==
  IF GridLength(currentGrid) = 0 THEN [g |-> currentGrid, path |-> << >>]
  ELSE LET size == GridLength(currentGrid)
           g0 == ResetSolveFlags(currentGrid)
           g1 == [g0 EXCEPT ![startCell].visitedForSolution = TRUE]
           s == SearchLoop(g1, size, << startCell >>, endCell)
       IN IF s.solutionFound
          THEN [g |-> s.g,
                path |-> Reverse(WalkParents(s.g, endCell)
                                 \o << [x |-> startCell[1], y |-> startCell[2]] >>)]
          ELSE [g |-> s.g, path |-> << >>]

\* ------------------------------------------------------------------------
\* Maze: drawMaze and the export
\* ------------------------------------------------------------------------
RECURSIVE Flatten(_)
Flatten(ss) == IF ss = << >> THEN << >> ELSE Head(ss) \o Flatten(Tail(ss))

\* The aspect ratios of the select that are tried (commonAspectRatios).
AspectRatios == {"1:1", "16:9", "9:16"}

\* mazeDisplayWidth and mazeDisplayHeight after the effect of lines 50-59, in
\* hundredths of a pixel.
mazeDisplayWidth(ratio) == IF ratio = "9:16" THEN 28125 ELSE 50000
mazeDisplayHeight(ratio) == IF ratio = "16:9" THEN 28125 ELSE 50000

\* Lines 236-257: the wall segments of the cells, row by row, each cell's in
\* the order top, right, bottom, left; a segment is <<x1, y1, x2, y2>>.
WallSegments(currentGrid, width, height) ==
  LET size == GridLength(currentGrid)
      xAt(k) == (k * width) \div size
      yAt(k) == (k * height) \div size
      ofCell(x, y) ==
        LET walls == currentGrid[<<x, y>>].walls
        IN (IF walls.top THEN << <<xAt(x), yAt(y), xAt(x + 1), yAt(y)>> >> ELSE << >>)
           \o (IF walls.right
               THEN << <<xAt(x + 1), yAt(y), xAt(x + 1), yAt(y + 1)>> >> ELSE << >>)
           \o (IF walls.bottom
               THEN << <<xAt(x + 1), yAt(y + 1), xAt(x), yAt(y + 1)>> >> ELSE << >>)
           \o (IF walls.left THEN << <<xAt(x), yAt(y + 1), xAt(x), yAt(y)>> >> ELSE << >>)
  IN Flatten([i \in 1..(size * size) |-> ofCell((i - 1) % size, (i - 1) \div size)])

\* Lines 259-262: the four segments of the outer boundary.
BorderSegments(width, height) ==
  << <<0, 0, width, 0>>, <<width, 0, width, height>>,
     <<width, height, 0, height>>, <<0, height, 0, 0>> >>

\* Lines 288-299: the vertices of the solution polyline, at the cell centres.
SolutionVertices(currentSolutionPath, size, width, height) ==
  [i \in 1..Len(currentSolutionPath) |->
     <<((2 * currentSolutionPath[i].x + 1) * width) \div (2 * size),
       ((2 * currentSolutionPath[i].y + 1) * height) \div (2 * size)>>]

\* A drawMaze that draws the solution whenever there is a path.
drawMazeAlwaysSolution(currentGrid, currentSolutionPath, shouldShowSolution, width, height) ==
  IF GridLength(currentGrid) = 0 THEN << >>
  ELSE LET size == GridLength(currentGrid)
       IN << [tag |-> "rect", width |-> width, height |-> height],
             [tag |-> "path", stroke |-> "#000000",
              d |-> WallSegments(currentGrid, width, height)
                    \o BorderSegments(width, height)],
             [tag |-> "circle", cx |-> width \div (2 * size), cy |-> height \div (2 * size)],
             [tag |-> "circle", cx |-> ((2 * size - 1) * width) \div (2 * size),
              cy |-> ((2 * size - 1) * height) \div (2 * size)] >>
          \o (IF Len(currentSolutionPath) > 0
              THEN << [tag |-> "path", stroke |-> "#FF0000",
                       d |-> SolutionVertices(currentSolutionPath, size, width, height)] >>
              ELSE << >>)

\* drawMaze(currentGrid, svgElement, currentSolutionPath, shouldShowSolution,
\* width, height): the children of the <svg> element after the call.
drawMaze(currentGrid, currentSolutionPath, shouldShowSolution, width, height) ==
  IF GridLength(currentGrid) = 0 THEN << >>
  ELSE LET size == GridLength(currentGrid)
       IN << [tag |-> "rect", width |-> width, height |-> height],
             [tag |-> "path", stroke |-> "#000000",
              d |-> WallSegments(currentGrid, width, height)
                    \o BorderSegments(width, height)],
             [tag |-> "circle", cx |-> width \div (2 * size), cy |-> height \div (2 * size)],
             [tag |-> "circle", cx |-> ((2 * size - 1) * width) \div (2 * size),
              cy |-> ((2 * size - 1) * height) \div (2 * size)] >>
          \o (IF shouldShowSolution /\ Len(currentSolutionPath) > 0
              THEN << [tag |-> "path", stroke |-> "#FF0000",
                       d |-> SolutionVertices(currentSolutionPath, size, width, height)] >>
              ELSE << >>)

\* exportToSVG(svgElement, fileName): the downloaded document.
exportToSVG(svgElement, fileName) ==
  [kind |-> "svg", children |-> svgElement, name |-> fileName]

\* ------------------------------------------------------------------------
\* Maze: the page's state machine
\* ------------------------------------------------------------------------
\* The maze page holds no p5 sketch.
NoSolid ==
  /\ seed = 0
  /\ generatedBoxesCache = << >>
  /\ lineSegmentsCache = << >>
  /\ sites = << >>
  /\ delaunay = null
  /\ voronoi = null
  /\ uMVMatrix = null
  /\ uPMatrix = null
  /\ randomState = null

NoSketch ==
  /\ p5Ready = FALSE
  /\ angleMode = "radians"
  /\ params = << >>
  /\ rendered = << >>
  /\ NoSolid

InitMaze ==
  /\ page = "maze"
  /\ NoSketch
  /\ density \in 1..MaxDensity
  /\ grid = EmptyGrid
  /\ solutionPath = << >>
  /\ svgChildren = << >>
  /\ showSolution = TRUE
  /\ aspectRatio = "1:1"
  /\ newGrid = EmptyGrid
  /\ stack = << >>
  /\ currentCell = null
  /\ pc = "mounted"
  /\ solveStart = null
  /\ solveEnd = null
  /\ emitted = NoDoc
  /\ logged = NoLog

\* recursiveBacktracker(size), lines 123-134: up to the do-while loop.
BeginCarving(size) ==
  /\ newGrid' = [initializeGrid(size) EXCEPT ![<<0, 0>>].visited = TRUE]
  /\ stack' = << >>
  /\ currentCell' = <<0, 0>>
  /\ pc' = "carving"
  /\ emitted' = NoDoc
  /\ logged' = NoLog
  /\ UNCHANGED <<grid, solutionPath, svgChildren, showSolution, solveStart, solveEnd,
                 sketchVars>>

\* useEffect(() => generateAndDrawMaze(), [density, ...]) on mount.
MountEffect ==
  /\ pc = "mounted"
  /\ BeginCarving(density)
  /\ UNCHANGED <<density, aspectRatio>>

\* The Generate Maze button: generateAndDrawMaze with the current density.
GenerateClick ==
  /\ pc = "idle"
  /\ BeginCarving(density)
  /\ UNCHANGED <<density, aspectRatio>>

\* The density slider: setDensity, then the effect runs generateAndDrawMaze.
SetDensity ==
  /\ pc = "idle"
  /\ \E d \in 1..MaxDensity :
       /\ d # density
       /\ density' = d
       /\ BeginCarving(d)
  /\ UNCHANGED aspectRatio

\* The aspect-ratio select: setAspectRatio; the effect of lines 50-59 sets the
\* display size and the effect of lines 353-355 runs generateAndDrawMaze, again
\* once the display size has changed; the last run is the one that stays.
SetAspectRatio ==
  /\ pc = "idle"
  /\ \E a \in AspectRatios :
       /\ a # aspectRatio
       /\ aspectRatio' = a
       /\ BeginCarving(density)
  /\ UNCHANGED density

\* The Show Solution Path checkbox: setShowSolution, then the effect of lines
\* 347-351 redraws the stored grid with the stored path.
ToggleShowSolution ==
  /\ pc = "idle"
  /\ showSolution' = ~showSolution
  /\ svgChildren' = IF GridLength(grid) > 0
                    THEN drawMaze(grid, solutionPath, showSolution',
                                  mazeDisplayWidth(aspectRatio),
                                  mazeDisplayHeight(aspectRatio))
                    ELSE svgChildren
  /\ emitted' = NoDoc
  /\ logged' = NoLog
  /\ UNCHANGED <<density, grid, solutionPath, aspectRatio, newGrid, stack, currentCell,
                 pc, solveStart, solveEnd, sketchVars>>

\* The loop condition of line 148.
LoopContinues(g, st, cell, size) ==
  Len(st) > 0 \/ Len(getUnvisitedNeighbors(cell, g, size)) > 0

\* One iteration of the do-while loop, lines 136-148.
CarveStep ==
  /\ pc = "carving"
  /\ LET size == GridLength(newGrid)
         unvisitedNeighbors == getUnvisitedNeighbors(currentCell, newGrid, size)
     IN /\ IF Len(unvisitedNeighbors) > 0
           THEN \E randomIndex \in 1..Len(unvisitedNeighbors) :
                  LET nextCell == unvisitedNeighbors[randomIndex]
                  IN /\ stack' = Append(stack, currentCell)
                     /\ newGrid' = [removeWall(newGrid, currentCell, nextCell)
                                      EXCEPT ![nextCell].visited = TRUE]
                     /\ currentCell' = nextCell
           ELSE IF Len(stack) > 0
           THEN /\ currentCell' = stack[Len(stack)]
                /\ stack' = SubSeq(stack, 1, Len(stack) - 1)
                /\ UNCHANGED newGrid
           ELSE UNCHANGED <<newGrid, stack, currentCell>>
        /\ pc' = IF LoopContinues(newGrid', stack', currentCell', size)
                 THEN "carving" ELSE "carved"
  /\ UNCHANGED <<density, grid, solutionPath, svgChildren, showSolution, aspectRatio,
                 solveStart, solveEnd, emitted, logged, sketchVars>>

\* A generateAndDrawMaze that stores the new grid and keeps the stored path.
FinishGenerationKeepsPath ==
  /\ pc = "carved"
  /\ LET r == IF GridLength(newGrid) > 0
              THEN findSolutionPath(newGrid, <<0, 0>>, <<density - 1, density - 1>>)
              ELSE [g |-> newGrid, path |-> << >>]
     IN /\ grid' = r.g
        /\ newGrid' = r.g
        /\ solutionPath' = IF solutionPath = << >> THEN r.path ELSE solutionPath
        /\ svgChildren' = drawMaze(r.g, r.path, showSolution,
                                   mazeDisplayWidth(aspectRatio),
                                   mazeDisplayHeight(aspectRatio))
        /\ solveStart' = IF GridLength(newGrid) > 0 THEN <<0, 0>> ELSE solveStart
        /\ solveEnd' = IF GridLength(newGrid) > 0
                       THEN <<density - 1, density - 1>> ELSE solveEnd
  /\ pc' = "idle"
  /\ UNCHANGED <<density, showSolution, aspectRatio, stack, currentCell, emitted, logged,
                 sketchVars>>

\* generateAndDrawMaze after recursiveBacktracker returned, lines 314-328.
FinishGeneration ==
  /\ pc = "carved"
  /\ LET r == IF GridLength(newGrid) > 0
              THEN findSolutionPath(newGrid, <<0, 0>>, <<density - 1, density - 1>>)
              ELSE [g |-> newGrid, path |-> << >>]
     IN /\ grid' = r.g
        /\ newGrid' = r.g
        /\ solutionPath' = r.path
        /\ svgChildren' = drawMaze(r.g, r.path, showSolution,
                                   mazeDisplayWidth(aspectRatio),
                                   mazeDisplayHeight(aspectRatio))
        /\ solveStart' = IF GridLength(newGrid) > 0 THEN <<0, 0>> ELSE solveStart
        /\ solveEnd' = IF GridLength(newGrid) > 0
                       THEN <<density - 1, density - 1>> ELSE solveEnd
  /\ pc' = "idle"
  /\ UNCHANGED <<density, showSolution, aspectRatio, stack, currentCell, emitted, logged,
                 sketchVars>>

\* handleExportSVG: the svg element exists once the page is mounted.
handleExportSVG ==
  /\ pc \in {"mounted", "idle"}
  /\ emitted' = exportToSVG(<< [tag |-> "rect",
                                width |-> mazeDisplayWidth(aspectRatio),
                                height |-> mazeDisplayHeight(aspectRatio)] >>
                             \o svgChildren,
                             <<"maze", density, aspectRatio>>)
  /\ logged' = NoLog
  /\ UNCHANGED <<density, grid, solutionPath, svgChildren, showSolution, aspectRatio,
                 newGrid, stack, currentCell, pc, solveStart, solveEnd, sketchVars>>

NextMaze ==
  \/ MountEffect
  \/ GenerateClick
  \/ SetDensity
  \/ SetAspectRatio
  \/ ToggleShowSolution
  \/ CarveStep
  \/ FinishGeneration
  \/ handleExportSVG

SpecMaze == InitMaze /\ [][NextMaze]_vars

\* The loop runs to completion: the handler is synchronous and never preempted.
FairMaze == SpecMaze /\ WF_vars(CarveStep)

\* ------------------------------------------------------------------------
\* findSolutionPath on every grid with symmetric wall flags
\* ------------------------------------------------------------------------
\* The walls between two cells of a size x size grid: <<a, b>> with b right of
\* or below a.
InternalWalls(size) ==
  {<<c, <<c[1] + 1, c[2]>>>> : c \in {d \in Coords(size) : d[1] < size - 1}}
  \cup {<<c, <<c[1], c[2] + 1>>>> : c \in {d \in Coords(size) : d[2] < size - 1}}

\* The grid whose open walls are exactly those of the set open (interface Cell).
GridFromOpen(size, open) ==
  [c \in Coords(size) |->
     [x |-> c[1], y |-> c[2],
      walls |-> [top    |-> <<<<c[1], c[2] - 1>>, c>> \notin open,
                 right  |-> <<c, <<c[1] + 1, c[2]>>>> \notin open,
                 bottom |-> <<c, <<c[1], c[2] + 1>>>> \notin open,
                 left   |-> <<<<c[1] - 1, c[2]>>, c>> \notin open],
      visited |-> TRUE,
      visitedForSolution |-> FALSE,
      parent |-> null]]

InitSolve ==
  /\ page = "maze"
  /\ NoSketch
  /\ newGrid \in UNION {{GridFromOpen(n, open) : open \in SUBSET InternalWalls(n)} :
                          n \in 0..MinDensity}
  /\ density = GridLength(newGrid)
  /\ grid = EmptyGrid
  /\ solutionPath = << >>
  /\ svgChildren = << >>
  /\ showSolution = TRUE
  /\ aspectRatio = "1:1"
  /\ stack = << >>
  /\ currentCell = null
  /\ pc = "unsolved"
  /\ solveStart = null
  /\ solveEnd = null
  /\ emitted = NoDoc
  /\ logged = NoLog

\* The cells a caller can pass: the cells of the grid; an empty grid has none
\* (grid[0][0] is undefined).
CellsOf(g) == IF GridLength(g) = 0 THEN {null} ELSE DOMAIN g

\* One call findSolutionPath(newGrid, startCell, endCell).
Solve ==
  /\ pc = "unsolved"
  /\ \E startCell \in CellsOf(newGrid), endCell \in CellsOf(newGrid) :
       LET r == findSolutionPath(newGrid, startCell, endCell)
       IN /\ newGrid' = r.g
          /\ solutionPath' = r.path
          /\ solveStart' = startCell
          /\ solveEnd' = endCell
  /\ pc' = "solved"
  /\ UNCHANGED <<density, grid, svgChildren, showSolution, aspectRatio, stack,
                 currentCell, emitted, logged, sketchVars>>

NextSolve == Solve

SpecSolve == InitSolve /\ [][NextSolve]_vars

\* ------------------------------------------------------------------------
\* findSolutionPath called again and again on one grid
\* ------------------------------------------------------------------------
\* Every grid of size 1 and 2, and the grids of size 3 with at most
\* MaxClosedWalls walls between cells.
InitResolve ==
  /\ page = "maze"
  /\ NoSketch
  /\ newGrid \in UNION {{GridFromOpen(n, open) : open \in SUBSET InternalWalls(n)} :
                          n \in 1..(MinDensity - 1)}
                 \cup {GridFromOpen(MinDensity, InternalWalls(MinDensity) \ closed) :
                         closed \in {c \in SUBSET InternalWalls(MinDensity) :
                                       Cardinality(c) <= MaxClosedWalls}}
  /\ density = GridLength(newGrid)
  /\ grid = EmptyGrid
  /\ solutionPath = << >>
  /\ svgChildren = << >>
  /\ showSolution = TRUE
  /\ aspectRatio = "1:1"
  /\ stack = << >>
  /\ currentCell = null
  /\ pc = "unsolved"
  /\ solveStart = null
  /\ solveEnd = null
  /\ emitted = NoDoc
  /\ logged = NoLog

\* The start and end cells tried: every cell of a grid of size 1 or 2, the
\* four corner cells of a larger grid.
EndCells(g) ==
  IF GridLength(g) < MinDensity THEN DOMAIN g
  ELSE {c \in DOMAIN g : c[1] \in {0, GridLength(g) - 1} /\ c[2] \in {0, GridLength(g) - 1}}

\* One more call findSolutionPath(newGrid, startCell, endCell) on the cells as
\* the call before left them; grid keeps the cells as this call received them.
Resolve ==
  /\ pc \in {"unsolved", "solved"}
  /\ \E startCell \in EndCells(newGrid), endCell \in EndCells(newGrid) :
       LET r == findSolutionPath(newGrid, startCell, endCell)
       IN /\ newGrid' = r.g
          /\ solutionPath' = r.path
          /\ solveStart' = startCell
          /\ solveEnd' = endCell
  /\ grid' = newGrid
  /\ pc' = "solved"
  /\ UNCHANGED <<density, svgChildren, showSolution, aspectRatio, stack, currentCell,
                 emitted, logged, sketchVars>>

NextResolve == Resolve

SpecResolve == InitResolve /\ [][NextResolve]_vars

\* ------------------------------------------------------------------------
\* Arithmetic of the fixed-point model
\* ------------------------------------------------------------------------
Max(a, b) == IF a >= b THEN a ELSE b
Min(a, b) == IF a <= b THEN a ELSE b

\* JavaScript's a % m: the remainder has the sign of a.
JSRem(a, m) == IF a >= 0 THEN a % m ELSE -((-a) % m)

\* Math.sin of an angle in thousandths of a radian, in thousandths
\* (Bhaskara's rational approximation on each half period).
MathSin(a) ==
  LET r == a % 6283
      h == IF r <= 3142 THEN r ELSE r - 3142
      t == (h * (3142 - h)) \div 1000
      v == (16000 * t) \div (49348 - 4 * t)
  IN IF r <= 3142 THEN v ELSE -v

MathCos(a) == MathSin(a + 1571)

\* Math.asin of a sine in thousandths: the angle of [-pi/2, pi/2], in
\* thousandths of a radian, found by bisection on MathSin.
RECURSIVE AsinSearch(_, _, _)
AsinSearch(lo, hi, v) ==
  IF hi - lo <= 1 THEN (IF MathSin(hi) <= v THEN hi ELSE lo)
  ELSE LET mid == (lo + hi) \div 2
       IN IF MathSin(mid) <= v THEN AsinSearch(mid, hi, v) ELSE AsinSearch(lo, mid, v)

MathAsin(v) == IF v >= 0 THEN AsinSearch(0, 1571, v) ELSE -AsinSearch(0, 1571, -v)

\* p5.sin, p5.cos, p5.asin: Math's functions on radians; in DEGREES mode the
\* angle is converted first (and asin's result back).
p5sin(mode, a) == IF mode = "radians" THEN MathSin(a) ELSE MathSin((a * 3142) \div 180000)
p5cos(mode, a) == IF mode = "radians" THEN MathCos(a) ELSE MathCos((a * 3142) \div 180000)
p5asin(mode, v) == IF mode = "radians" THEN MathAsin(v) ELSE (MathAsin(v) * 180000) \div 3142

\* floor(a * s / 100) without leaving 32 bits.
MulDiv100(a, s) == a * (s \div 100) + (a * (s % 100)) \div 100

\* Number.prototype.toFixed(1) of a stroke width held in 1/100000: tenths.
toFixed1(w) == (w + 5000) \div 10000

RECURSIVE SumScale(_)
SumScale(points) == IF points = << >> THEN 0 ELSE Head(points).scale + SumScale(Tail(points))

\* ------------------------------------------------------------------------
\* Waves: wireframe-waves/page.tsx
\* ------------------------------------------------------------------------
\* A calculateWaveValue whose sawtooth takes the remainder with the sign of
\* the divisor.
calculateWaveValueFloorMod(P, mode, x, z, time) ==
  LET waveInput == (z * P.waveFrequency) \div 10 + (x * 3) \div 10 + P.wavePhase + time
      waveValue ==
        CASE P.waveType = "sine" -> p5sin(mode, waveInput)
          [] P.waveType = "triangle" ->
               (2000 * p5asin(mode, p5sin(mode, waveInput))) \div 3142
          [] P.waveType = "square" -> IF p5sin(mode, waveInput) > 0 THEN 1000 ELSE -1000
          [] P.waveType = "sawtooth" -> (2000 * ((waveInput % 6283) - 3142)) \div 3142
          [] OTHER -> 0
      crossWave == (p5sin(mode, x + time \div 2) * 3) \div 10
  IN waveValue + crossWave

\* A calculateWaveValue whose square wave is 1 where the sine is 0.
calculateWaveValueSquareGeq(P, mode, x, z, time) ==
  LET waveInput == (z * P.waveFrequency) \div 10 + (x * 3) \div 10 + P.wavePhase + time
      waveValue ==
        CASE P.waveType = "sine" -> p5sin(mode, waveInput)
          [] P.waveType = "triangle" ->
               (2000 * p5asin(mode, p5sin(mode, waveInput))) \div 3142
          [] P.waveType = "square" -> IF p5sin(mode, waveInput) >= 0 THEN 1000 ELSE -1000
          [] P.waveType = "sawtooth" -> (2000 * (JSRem(waveInput, 6283) - 3142)) \div 3142
          [] OTHER -> 0
      crossWave == (p5sin(mode, x + time \div 2) * 3) \div 10
  IN waveValue + crossWave

\* calculateWaveValue(p5, x, z, time), in thousandths; x and z in tenths of a
\* pixel, time in thousandths of a radian.
calculateWaveValue(P, mode, x, z, time) ==
  LET waveInput == (z * P.waveFrequency) \div 10 + (x * 3) \div 10 + P.wavePhase + time
      waveValue ==
        CASE P.waveType = "sine" -> p5sin(mode, waveInput)
          [] P.waveType = "triangle" ->
               (2000 * p5asin(mode, p5sin(mode, waveInput))) \div 3142
          [] P.waveType = "square" -> IF p5sin(mode, waveInput) > 0 THEN 1000 ELSE -1000
          [] P.waveType = "sawtooth" -> (2000 * (JSRem(waveInput, 6283) - 3142)) \div 3142
          [] OTHER -> 0
      crossWave == (p5sin(mode, x + time \div 2) * 3) \div 10
  IN waveValue + crossWave

\* calculateWaveValueSVG(x, z, time), in thousandths.
calculateWaveValueSVG(P, x, z, time) ==
  LET waveInput == (z * P.waveFrequency) \div 10 + (x * 3) \div 10 + P.wavePhase + time
      waveValue ==
        CASE P.waveType = "sine" -> MathSin(waveInput)
          [] P.waveType = "triangle" -> (2000 * MathAsin(MathSin(waveInput))) \div 3142
          [] P.waveType = "square" -> IF MathSin(waveInput) > 0 THEN 1000 ELSE -1000
          [] P.waveType = "sawtooth" -> (2000 * (JSRem(waveInput, 6283) - 3142)) \div 3142
          [] OTHER -> 0
      crossWave == (MathSin(x + time \div 2) * 3) \div 10
  IN waveValue + crossWave

NotVisible == [visible |-> FALSE]

\* project3DTo2D(p5, x, y, z) of the waves page (canvas 800 x 600).
wavesProject3DTo2D(P, mode, x, y, z) ==
  LET relX == x
      relY == y - P.cameraHeight * 10
      relZ == z + 500
      cosAngle == p5cos(mode, P.viewingAngle)
      sinAngle == p5sin(mode, P.viewingAngle)
      rotY == (relY * cosAngle - relZ * sinAngle) \div 1000
      rotZ == (relY * sinAngle + relZ * cosAngle) \div 1000
  IN IF rotZ <= 0 THEN NotVisible
     ELSE LET scale == (P.perspectiveDistance * 1000) \div rotZ
          IN [visible |-> TRUE,
              x |-> 4000 + MulDiv100(relX, scale),
              y |-> 3000 - MulDiv100(rotY, scale),
              scale |-> scale]

IsVisible(q) == q.visible

\* The shape draw emits for the projected points of one line (lines 138-149,
\* 166-177): none unless it has more than one point.
wavesDrawShape(P, points, floorFactor) ==
  IF Len(points) > 1
  THEN LET avgScale == SumScale(points) \div Len(points)
       IN << [points |-> [i \in 1..Len(points) |-> [x |-> points[i].x, y |-> points[i].y]],
              weight |-> P.strokeWeight * Max(floorFactor, Min(10000, avgScale))] >>
  ELSE << >>

\* draw(p5), lines 115-182: the shapes in drawing order.
wavesDraw(P, mode) ==
  LET spacing == Max(50, (P.depthResolution * 100) \div P.waveDensity)
      xStep == Max(1, (40 + P.waveDensity) \div (2 * P.waveDensity))
      crossWaveSpacing == Max(spacing, (spacing * 20) \div P.crossWaveDensity)
      depth == P.oceanDepth * 10
      zLine(x) ==
        LET n == (depth + spacing - 1) \div spacing
            sample(k) ==
              LET z == (k - 1) * spacing
                  waveValue == calculateWaveValue(P, mode, x * spacing, z, P.timeOffset)
                  y == (waveValue * P.waveAmplitude) \div 100
              IN wavesProject3DTo2D(P, mode, x * spacing, y, z)
        IN wavesDrawShape(P, SelectSeq([k \in 1..n |-> sample(k)], IsVisible), 3000)
      xDetailStep == Max(5, 100 \div P.waveDensity)
      xLine(z) ==
        LET n == (20 * P.gridResolution) \div xDetailStep + 1
            sample(k) ==
              LET x == (k - 1) * xDetailStep - 10 * P.gridResolution
                  waveValue ==
                    calculateWaveValue(P, mode, (x * spacing) \div 10, z, P.timeOffset)
                  y == (waveValue * P.waveAmplitude) \div 100
              IN wavesProject3DTo2D(P, mode, (x * spacing) \div 10, y, z)
        IN wavesDrawShape(P, SelectSeq([k \in 1..n |-> sample(k)], IsVisible), 2000)
      nx == (2 * P.gridResolution) \div xStep + 1
      nz == (depth + crossWaveSpacing - 1) \div crossWaveSpacing
  IN Flatten([k \in 1..nx |-> zLine((k - 1) * xStep - P.gridResolution)])
     \o Flatten([k \in 1..nz |-> xLine((k - 1) * crossWaveSpacing)])

\* exportSVG, lines 198-276: the paths of the document in order, each with
\* its points and its stroke width before they are formatted.
wavesExportPaths(P) ==
  LET spacing == Max(50, (P.depthResolution * 100) \div P.waveDensity)
      xStep == Max(1, (40 + P.waveDensity) \div (2 * P.waveDensity))
      crossWaveSpacing == Max(spacing, (spacing * 20) \div P.crossWaveDensity)
      depth == P.oceanDepth * 10
      project(wx, z) ==
        LET waveValue == calculateWaveValueSVG(P, wx, z, P.timeOffset)
            y == (waveValue * P.waveAmplitude) \div 100
            relX == wx
            relY == y - P.cameraHeight * 10
            relZ == z + 500
            cosAngle == MathCos(P.viewingAngle)
            sinAngle == MathSin(P.viewingAngle)
            rotY == (relY * cosAngle - relZ * sinAngle) \div 1000
            rotZ == (relY * sinAngle + relZ * cosAngle) \div 1000
        IN IF rotZ > 0
           THEN LET scale == (P.perspectiveDistance * 1000) \div rotZ
                IN [visible |-> TRUE,
                    x |-> 4000 + MulDiv100(relX, scale),
                    y |-> 3000 - MulDiv100(rotY, scale),
                    scale |-> scale]
           ELSE NotVisible
      path(points, floorFactor) ==
        IF Len(points) > 1
        THEN LET avgScale == SumScale(points) \div Len(points)
                 weight == P.strokeWeight * Max(floorFactor, Min(10000, avgScale))
             IN << [points |-> [i \in 1..Len(points) |->
                                  [x |-> points[i].x, y |-> points[i].y]],
                    weight |-> weight,
                    strokeWidth |-> toFixed1(weight)] >>
        ELSE << >>
      zLine(x) ==
        LET n == (depth + spacing - 1) \div spacing
        IN path(SelectSeq([k \in 1..n |-> project(x * spacing, (k - 1) * spacing)],
                          IsVisible), 3000)
      xDetailStep == Max(5, 100 \div P.waveDensity)
      xLine(z) ==
        LET n == (20 * P.gridResolution) \div xDetailStep + 1
        IN path(SelectSeq([k \in 1..n |->
                             project((((k - 1) * xDetailStep - 10 * P.gridResolution)
                                      * spacing) \div 10, z)],
                          IsVisible), 2000)
      nx == (2 * P.gridResolution) \div xStep + 1
      nz == (depth + crossWaveSpacing - 1) \div crossWaveSpacing
  IN Flatten([k \in 1..nx |-> zLine((k - 1) * xStep - P.gridResolution)])
     \o Flatten([k \in 1..nz |-> xLine((k - 1) * crossWaveSpacing)])

\* The state of lines 13-26 the model draws from: values of the sliders and
\* of the select (lines 315-367); gridResolution has no control.  Lengths in
\* pixels, angles and waveFrequency in thousandths, strokeWeight and the two
\* densities in tenths.
WaveParams ==
  [gridResolution : {25},
   waveAmplitude : {0, 40},
   waveFrequency : {15},
   wavePhase : {0},
   waveType : {"sine", "triangle", "square", "sawtooth"},
   strokeWeight : {10},
   timeOffset : {0},
   cameraHeight : {50},
   viewingAngle : {300, 1500},
   perspectiveDistance : {300},
   oceanDepth : {200},
   waveDensity : {5, 10},
   crossWaveDensity : {5, 10},
   depthResolution : {20, 50}]

\* The maze variables on a page that is not the maze page.
NoMaze ==
  /\ density = 0
  /\ grid = EmptyGrid
  /\ solutionPath = << >>
  /\ svgChildren = << >>
  /\ showSolution = TRUE
  /\ aspectRatio = "1:1"
  /\ newGrid = EmptyGrid
  /\ stack = << >>
  /\ currentCell = null
  /\ pc = "sketch"
  /\ solveStart = null
  /\ solveEnd = null

sketchFrame == <<density, grid, solutionPath, svgChildren, showSolution, aspectRatio,
                 newGrid, stack, currentCell,
                 pc, solveStart, solveEnd>>

wavesFrame == <<seed, generatedBoxesCache, lineSegmentsCache, sites, delaunay, voronoi,
                uMVMatrix, uPMatrix, randomState, sketchFrame>>

InitWaves ==
  /\ page = "waves"
  /\ NoMaze
  /\ NoSolid
  /\ p5Ready = FALSE
  /\ angleMode = "radians"
  /\ params \in WaveParams
  /\ rendered = << >>
  /\ emitted = NoDoc
  /\ logged = NoLog

\* setup(p5, canvasParentRef), lines 31-38, and the first frame p5 draws.
wavesSetup ==
  /\ page = "waves"
  /\ ~p5Ready
  /\ p5Ready' = TRUE
  /\ rendered' = wavesDraw(params, angleMode)
  /\ emitted' = NoDoc
  /\ logged' = NoLog
  /\ UNCHANGED <<page, angleMode, params, wavesFrame>>

\* A slider or the select changes one parameter; the effect of lines 184-188
\* redraws when the sketch exists.
wavesSetParam ==
  /\ page = "waves"
  /\ \E P \in WaveParams :
       /\ Cardinality({f \in DOMAIN P : P[f] # params[f]}) = 1
       /\ params' = P
       /\ rendered' = IF p5Ready THEN wavesDraw(P, angleMode) ELSE rendered
  /\ emitted' = NoDoc
  /\ logged' = NoLog
  /\ UNCHANGED <<page, p5Ready, angleMode, wavesFrame>>

\* exportSVG, lines 190-289.
wavesExportSVG ==
  /\ page = "waves"
  /\ emitted' = IF ~p5Ready THEN NoDoc
                ELSE [kind |-> "svg", name |-> "ocean_waves_3d.svg",
                      paths |-> wavesExportPaths(params)]
  /\ logged' = NoLog
  /\ UNCHANGED <<page, p5Ready, angleMode, params, rendered, wavesFrame>>

NextWaves ==
  \/ wavesSetup
  \/ wavesSetParam
  \/ wavesExportSVG

SpecWaves == InitWaves /\ [][NextWaves]_vars

\* The value of a one-element set: TheOnly({e(v) : v \in {d}}) is e with v
\* standing for the value of d.
TheOnly(S) == CHOOSE v \in S : TRUE

\* ------------------------------------------------------------------------
\* p5: the seeded generator behind random(), the WEBGL renderer's matrices
\* ------------------------------------------------------------------------
\* randomSeed(val): the generator's 32-bit state, as <<high, low>> halves.
randomSeed(val) == <<(val \div 65536) % 65536, val % 65536>>

\* One step z = (1664525 * z + 1013904223) % 2^32 on the halves.
lcg(z) ==
  LET low == 26125 * z[2] + 62303
      high == low \div 65536 + 25 * z[2] + 26125 * z[1] + 15470
  IN <<high % 65536, low % 65536>>

\* Two, four, ... thirty-two steps.
lcg2(z) == TheOnly({ lcg(y) : y \in {lcg(z)} })
lcg4(z) == TheOnly({ lcg2(y) : y \in {lcg2(z)} })
lcg8(z) == TheOnly({ lcg4(y) : y \in {lcg4(z)} })
lcg16(z) == TheOnly({ lcg8(y) : y \in {lcg8(z)} })
lcg32(z) == TheOnly({ lcg16(y) : y \in {lcg16(z)} })

\* The generator's state after k steps from z, for k < 64: the steps are
\* taken in the groups of k's binary digits.
lcgAfter(z, k) ==
  TheOnly({ IF (k \div 32) % 2 = 1 THEN lcg32(f) ELSE f : f \in {
  TheOnly({ IF (k \div 16) % 2 = 1 THEN lcg16(e) ELSE e : e \in {
  TheOnly({ IF (k \div 8) % 2 = 1 THEN lcg8(d) ELSE d : d \in {
  TheOnly({ IF (k \div 4) % 2 = 1 THEN lcg4(c) ELSE c : c \in {
  TheOnly({ IF (k \div 2) % 2 = 1 THEN lcg2(b) ELSE b : b \in {
            IF k % 2 = 1 THEN lcg(z) ELSE z} }) } }) } }) } }) } })

\* The value of the k-th call random(min, max) made from the generator state
\* z: min + (z' / 2^32) * (max - min), with z' / 2^32 taken to 16 bits.
\* A random(min, max) that scales by max instead of max - min.
randomFromZero(z, k, min, max) ==
  min + (lcgAfter(z, k)[1] * max) \div 65536

random(z, k, min, max) ==
  min + (lcgAfter(z, k)[1] * (max - min)) \div 65536


NotNull(v) == v # null

\* p5.radians of an angle in thousandths of a degree, in thousandths.
radians(deg) == (deg * 3142) \div 180000

\* p5.constrain(n, low, high).
constrain(n, low, high) == Max(Min(n, high), low)

\* a / b rounded towards minus infinity, for a divisor of either sign.
Quot(a, b) == IF b > 0 THEN a \div b ELSE (-a) \div (-b)

\* The product of two mat4 (column-major, entries in thousandths).
Mat4Mul(a, b) ==
  [n \in 1..16 |->
     LET r == (n - 1) % 4
         c == (n - 1) \div 4
     IN (a[r + 1] * b[4 * c + 1] + a[r + 5] * b[4 * c + 2]
         + a[r + 9] * b[4 * c + 3] + a[r + 13] * b[4 * c + 4]) \div 1000]

\* rotateX, rotateY, rotateZ: the model-view matrix times the rotation about
\* the axis, the angle read in the sketch's angle mode.
rotateX(m, mode, angle) ==
  LET c == p5cos(mode, angle)
      s == p5sin(mode, angle)
  IN Mat4Mul(m, <<1000, 0, 0, 0,  0, c, s, 0,  0, -s, c, 0,  0, 0, 0, 1000>>)

rotateY(m, mode, angle) ==
  LET c == p5cos(mode, angle)
      s == p5sin(mode, angle)
  IN Mat4Mul(m, <<c, 0, -s, 0,  0, 1000, 0, 0,  s, 0, c, 0,  0, 0, 0, 1000>>)

rotateZ(m, mode, angle) ==
  LET c == p5cos(mode, angle)
      s == p5sin(mode, angle)
  IN Mat4Mul(m, <<c, s, 0, 0,  -s, c, 0, 0,  0, 0, 1000, 0,  0, 0, 0, 1000>>)

\* createCanvas(800, 600, WEBGL): the default camera, at (0, 0, 519.615)
\* looking at the origin, and the default perspective (60 degrees, 4:3, near
\* and far at a tenth and ten times the camera's distance).
cameraMatrix ==
  <<1000, 0, 0, 0,  0, 1000, 0, 0,  0, 0, 1000, 0,  0, 0, -519615, 1000>>

perspectiveMatrix ==
  <<1299, 0, 0, 0,  0, -1732, 0, 0,  0, 0, -1020, -1000,  0, 0, -104973, 0>>

\* A project3DTo2D that puts a point whose w is 0 at the canvas centre.
project3DTo2DKeepsZeroW(mvMatrix, projMatrix, point3D) ==
  IF projMatrix = null \/ mvMatrix = null THEN null
  ELSE
    TheOnly({
      TheOnly({
        TheOnly({
          IF clipPos[4] = 0 THEN [x |-> 4000, y |-> 3000, z |-> 0]
          ELSE LET ndcX == Quot(clipPos[1] * 1000, clipPos[4])
                   ndcY == Quot(clipPos[2] * 1000, clipPos[4])
                   ndcZ == Quot(clipPos[3] * 1000, clipPos[4])
               IN [x |-> (ndcX + 1000) * 4, y |-> (1000 - ndcY) * 3, z |-> ndcZ]
          : clipPos \in {[i \in 1..4 |->
                           (projMatrix[i] * eyePos[1] + projMatrix[4 + i] * eyePos[2]
                            + projMatrix[8 + i] * eyePos[3] + projMatrix[12 + i] * eyePos[4])
                           \div 1000]} })
        : eyePos \in {[i \in 1..4 |->
                        (mvMatrix[i] * pointVec4[1] + mvMatrix[4 + i] * pointVec4[2]
                         + mvMatrix[8 + i] * pointVec4[3] + mvMatrix[12 + i] * pointVec4[4])
                        \div 1000]} })
      : pointVec4 \in {<<point3D.x, point3D.y, point3D.z, 10>>} })

\* project3DTo2D(p5_main, point3D) with the renderer's two matrices; point
\* and screen coordinates in tenths of a pixel, depth in thousandths.
project3DTo2D(mvMatrix, projMatrix, point3D) ==
  IF projMatrix = null \/ mvMatrix = null THEN null
  ELSE
    TheOnly({
      TheOnly({
        TheOnly({
          IF clipPos[4] = 0 THEN null
          ELSE LET ndcX == Quot(clipPos[1] * 1000, clipPos[4])
                   ndcY == Quot(clipPos[2] * 1000, clipPos[4])
                   ndcZ == Quot(clipPos[3] * 1000, clipPos[4])
               IN [x |-> (ndcX + 1000) * 4, y |-> (1000 - ndcY) * 3, z |-> ndcZ]
          : clipPos \in {[i \in 1..4 |->
                           (projMatrix[i] * eyePos[1] + projMatrix[4 + i] * eyePos[2]
                            + projMatrix[8 + i] * eyePos[3] + projMatrix[12 + i] * eyePos[4])
                           \div 1000]} })
        : eyePos \in {[i \in 1..4 |->
                        (mvMatrix[i] * pointVec4[1] + mvMatrix[4 + i] * pointVec4[2]
                         + mvMatrix[8 + i] * pointVec4[3] + mvMatrix[12 + i] * pointVec4[4])
                        \div 1000]} })
      : pointVec4 \in {<<point3D.x, point3D.y, point3D.z, 10>>} })

IsKept(l) == l.kept

\* An export loop that asks for both ends to be within the bounds.
ExportLinesBothWithin(segs, mvMatrix, projMatrix, xBuffer, yBuffer) ==
  LET Visible(p) == /\ p.x >= -xBuffer /\ p.x <= 8000 + xBuffer
                    /\ p.y >= -yBuffer /\ p.y <= 6000 + yBuffer
      line(seg) ==
        TheOnly({
          IF /\ p1_2D # null /\ p2_2D # null
             /\ p1_2D.z < 1000 /\ p2_2D.z < 1000
             /\ Visible(p1_2D) /\ Visible(p2_2D)
          THEN [kept |-> TRUE, x1 |-> p1_2D.x, y1 |-> p1_2D.y, x2 |-> p2_2D.x, y2 |-> p2_2D.y]
          ELSE [kept |-> FALSE]
          : p1_2D \in {project3DTo2D(mvMatrix, projMatrix, seg.v1)},
            p2_2D \in {project3DTo2D(mvMatrix, projMatrix, seg.v2)} })
  IN TheOnly({
       [n \in 1..Len(kept) |->
          [x1 |-> kept[n].x1, y1 |-> kept[n].y1, x2 |-> kept[n].x2, y2 |-> kept[n].y2]]
       : kept \in {SelectSeq([n \in 1..Len(segs) |-> line(segs[n])], IsKept)} })

\* The <line> elements of an export: the cached segments whose two ends
\* project, lie before the far plane and of which one end is within the
\* bounds given.
ExportLines(segs, mvMatrix, projMatrix, xBuffer, yBuffer) ==
  LET Visible(p) == /\ p.x >= -xBuffer /\ p.x <= 8000 + xBuffer
                    /\ p.y >= -yBuffer /\ p.y <= 6000 + yBuffer
      line(seg) ==
        TheOnly({
          IF /\ p1_2D # null /\ p2_2D # null
             /\ p1_2D.z < 1000 /\ p2_2D.z < 1000
             /\ (Visible(p1_2D) \/ Visible(p2_2D))
          THEN [kept |-> TRUE, x1 |-> p1_2D.x, y1 |-> p1_2D.y, x2 |-> p2_2D.x, y2 |-> p2_2D.y]
          ELSE [kept |-> FALSE]
          : p1_2D \in {project3DTo2D(mvMatrix, projMatrix, seg.v1)},
            p2_2D \in {project3DTo2D(mvMatrix, projMatrix, seg.v2)} })
  IN TheOnly({
       [n \in 1..Len(kept) |->
          [x1 |-> kept[n].x1, y1 |-> kept[n].y1, x2 |-> kept[n].x2, y2 |-> kept[n].y2]]
       : kept \in {SelectSeq([n \in 1..Len(segs) |-> line(segs[n])], IsKept)} })

\* The seeds Math.floor(Math.random() * 10000) is drawn from in the model.
Seeds == {7, 1234, 4242}

\* ------------------------------------------------------------------------
\* Boxes: abstract-boxes/page.tsx (AbstractBoxesPage, lines 304-743)
\* ------------------------------------------------------------------------
\* Lengths in pixels, angles in degrees, strokeWeight in tenths.
BoxParams ==
  [numBoxes : 1..MaxBoxes,
   minBoxWidth : {20}, maxBoxWidth : {80},
   minBoxHeight : {20}, maxBoxHeight : {150},
   minBoxDepth : {20}, maxBoxDepth : {80},
   placementVolumeWidth : {500},
   placementVolumeHeight : {400},
   placementVolumeDepth : {500},
   maxRotationX : {0, 45}, maxRotationY : {45}, maxRotationZ : {45},
   strokeWeight : {10},
   initialRotationX : {0, 20},
   initialRotationY : {-30, 0},
   initialRotationZ : {0}]

\* Corner pairs with the pair 2-6 twice and the pair 3-7 missing.
BoxEdgesRepeated ==
  << <<0, 1>>, <<1, 2>>, <<2, 3>>, <<3, 0>>, <<4, 5>>, <<5, 6>>, <<6, 7>>, <<7, 4>>,
     <<0, 4>>, <<1, 5>>, <<2, 6>>, <<2, 6>> >>

\* The corners lines 447-458 join, in their order.
BoxEdges ==
  << <<0, 1>>, <<1, 2>>, <<2, 3>>, <<3, 0>>, <<4, 5>>, <<5, 6>>, <<6, 7>>, <<7, 4>>,
     <<0, 4>>, <<1, 5>>, <<2, 6>>, <<3, 7>> >>

\* generateIndividualBoxLines(p5, box): the twelve edges between the rotated
\* and translated corners; box lengths in tenths of a pixel, box rotation
\* in thousandths of a degree.
generateIndividualBoxLines(mode, box) ==
  LET w == box.width \div 2
      h == box.height \div 2
      d == box.depth \div 2
      localCorners ==
        << [x |-> -w, y |-> -h, z |-> -d], [x |-> w, y |-> -h, z |-> -d],
           [x |-> w, y |-> -h, z |-> d],   [x |-> -w, y |-> -h, z |-> d],
           [x |-> -w, y |-> h, z |-> -d],  [x |-> w, y |-> h, z |-> -d],
           [x |-> w, y |-> h, z |-> d],    [x |-> -w, y |-> h, z |-> d] >>
      rx == radians(box.rotation.x)
      ry == radians(box.rotation.y)
      rz == radians(box.rotation.z)
      cosX == p5cos(mode, rx)
      sinX == p5sin(mode, rx)
      cosY == p5cos(mode, ry)
      sinY == p5sin(mode, ry)
      cosZ == p5cos(mode, rz)
      sinZ == p5sin(mode, rz)
      transformed(lc) ==
        LET x1 == (lc.x * cosZ - lc.y * sinZ) \div 1000
            y1 == (lc.x * sinZ + lc.y * cosZ) \div 1000
            x2 == (x1 * cosY + lc.z * sinY) \div 1000
            z2 == (-x1 * sinY + lc.z * cosY) \div 1000
            y3 == (y1 * cosX - z2 * sinX) \div 1000
            z3 == (y1 * sinX + z2 * cosX) \div 1000
        IN [x |-> x2 + box.position.x, y |-> y3 + box.position.y, z |-> z3 + box.position.z]
  IN TheOnly({
       [n \in 1..12 |->
          [v1 |-> transformedCorners[BoxEdges[n][1] + 1],
           v2 |-> transformedCorners[BoxEdges[n][2] + 1]]]
       : transformedCorners \in {[k \in 1..8 |-> transformed(localCorners[k])]} })

\* The loop of generateBoxes, lines 473-495, drawing from the generator state
\* z: nine random() calls a box.  It returns the boxes and the state left.
generateBoxesFrom(mode, currentParams, z) ==
  LET P == currentParams
      box(i) ==
        LET k == 9 * (i - 1)
            boxData ==
              [width |-> random(z, k + 1, P.minBoxWidth * 10, P.maxBoxWidth * 10),
               height |-> random(z, k + 2, P.minBoxHeight * 10, P.maxBoxHeight * 10),
               depth |-> random(z, k + 3, P.minBoxDepth * 10, P.maxBoxDepth * 10),
               position |->
                 [x |-> random(z, k + 4, -(P.placementVolumeWidth * 5),
                               P.placementVolumeWidth * 5),
                  y |-> random(z, k + 5, -(P.placementVolumeHeight * 5),
                               P.placementVolumeHeight * 5),
                  z |-> random(z, k + 6, -(P.placementVolumeDepth * 5),
                               P.placementVolumeDepth * 5)],
               rotation |->
                 [x |-> 10 * random(z, k + 7, -(P.maxRotationX * 100),
                                    P.maxRotationX * 100),
                  y |-> 10 * random(z, k + 8, -(P.maxRotationY * 100),
                                    P.maxRotationY * 100),
                  z |-> 10 * random(z, k + 9, -(P.maxRotationZ * 100),
                                    P.maxRotationZ * 100)]]
        IN TheOnly({
             [width |-> b.width, height |-> b.height, depth |-> b.depth,
              position |-> b.position, rotation |-> b.rotation,
              lines |-> generateIndividualBoxLines(mode, b)]
             : b \in {boxData} })
  IN [boxes |-> [i \in 1..P.numBoxes |-> box(i)],
      randomState |-> lcgAfter(z, 9 * P.numBoxes)]

\* A generateBoxes that goes on from the state the generator was left in.
generateBoxesNoReseed(mode, currentParams, currentSeed, z) ==
  generateBoxesFrom(mode, currentParams, z)

\* generateBoxes(p5, currentParams, currentSeed), called with the generator
\* in state z: line 464 seeds the generator before the loop.
generateBoxes(mode, currentParams, currentSeed, z) ==
  generateBoxesFrom(mode, currentParams, randomSeed(currentSeed))

\* The segments of every cached box, in the order draw and exportSVG visit them.
BoxSegments(boxes) == Flatten([i \in 1..Len(boxes) |-> boxes[i].lines])

\* One frame of the boxes sketch: redraw() puts the camera's matrix in
\* uMVMatrix, then draw (lines 499-523) rotates between push() and pop();
\* no pointer input reaches orbitControl.
boxesDraw(P, currentSeed, mode, projMatrix, z) ==
  LET pushed == cameraMatrix
      rotated == rotateZ(rotateY(rotateX(pushed, mode, P.initialRotationX * 1000),
                                 mode, P.initialRotationY * 1000),
                         mode, P.initialRotationZ * 1000)
  IN TheOnly({
       [cache |-> g.boxes,
        rendered |-> [mvMatrix |-> rotated, projMatrix |-> projMatrix,
                      lines |-> BoxSegments(g.boxes), strokeWeight |-> P.strokeWeight],
        uMVMatrix |-> pushed,
        randomState |-> g.randomState]
       : g \in {generateBoxes(mode, P, currentSeed, z)} })

\* ------------------------------------------------------------------------
\* Mountain: mountain-generator/page.tsx
\* ------------------------------------------------------------------------
\* Lengths in pixels, angles in degrees, noiseScale in thousandths,
\* noiseDetailFalloff in hundredths, strokeWeight in tenths.
MountainParams ==
  [gridSizeX : {700}, gridSizeZ : {700},
   gridResolutionX : {MinMeshResolution},
   gridResolutionZ : MinMeshResolution..MaxMeshResolution,
   mountainHeightScale : {200},
   noiseScale : {40},
   noiseDetailLod : {4},
   noiseDetailFalloff : {35},
   strokeWeight : {8},
   initialRotationX : {0, 55},
   initialRotationY : {0},
   initialRotationZ : {-40, 0}]

\* p5.noise(x, y) in thousandths, within [0, 1): fixed by the noise seed, the
\* noiseDetail settings and the point (coordinates in thousandths).  The
\* model stands for the gradient lattice with a hash of the same arguments.
noise(noiseSeed, lod, falloff, x, y) ==
  ((x \div 100) * 37 + (y \div 100) * 101 + noiseSeed * 13 + lod * 7 + falloff) % 1000

\* A generateMountainMeshLines that stops every row one segment early.
generateMountainMeshLinesShortRows(currentParams, currentSeed) ==
  LET P == currentParams
      cellWidth == (P.gridSizeX * 10) \div P.gridResolutionX
      cellDepth == (P.gridSizeZ * 10) \div P.gridResolutionZ
      point(i, j) ==
        LET x == j * cellWidth - P.gridSizeX * 5
            z == i * cellDepth - P.gridSizeZ * 5
            noiseX == ((x + currentSeed * 1007) * P.noiseScale) \div 10
            noiseZ == ((z + currentSeed * 1007) * P.noiseScale) \div 10
            noiseVal == noise(currentSeed, P.noiseDetailLod, P.noiseDetailFalloff,
                              noiseX, noiseZ)
            y == ((noiseVal - 250) * P.mountainHeightScale) \div 100
        IN [x |-> x, y |-> y, z |-> z]
      \* the two lines the second loop may push at (i, j): k = 0 along x, k = 1 along z
      pushed(points, i, j, k) ==
        IF k = 0
        THEN (IF j < P.gridResolutionX - 1
              THEN [v1 |-> points[i][j], v2 |-> points[i][j + 1]] ELSE null)
        ELSE (IF i < P.gridResolutionZ
              THEN [v1 |-> points[i][j], v2 |-> points[i + 1][j]] ELSE null)
      across == P.gridResolutionX + 1
  IN TheOnly({
       SelectSeq([n \in 1..(2 * across * (P.gridResolutionZ + 1)) |->
                    pushed(points, ((n - 1) \div 2) \div across, ((n - 1) \div 2) % across,
                           (n - 1) % 2)],
                 NotNull)
       : points \in {[i \in 0..P.gridResolutionZ |->
                       [j \in 0..P.gridResolutionX |-> point(i, j)]]} })

\* generateMountainMeshLines(p5, currentParams, currentSeed).
generateMountainMeshLines(currentParams, currentSeed) ==
  LET P == currentParams
      cellWidth == (P.gridSizeX * 10) \div P.gridResolutionX
      cellDepth == (P.gridSizeZ * 10) \div P.gridResolutionZ
      point(i, j) ==
        LET x == j * cellWidth - P.gridSizeX * 5
            z == i * cellDepth - P.gridSizeZ * 5
            noiseX == ((x + currentSeed * 1007) * P.noiseScale) \div 10
            noiseZ == ((z + currentSeed * 1007) * P.noiseScale) \div 10
            noiseVal == noise(currentSeed, P.noiseDetailLod, P.noiseDetailFalloff,
                              noiseX, noiseZ)
            y == ((noiseVal - 250) * P.mountainHeightScale) \div 100
        IN [x |-> x, y |-> y, z |-> z]
      \* the two lines the second loop may push at (i, j): k = 0 along x, k = 1 along z
      pushed(points, i, j, k) ==
        IF k = 0
        THEN (IF j < P.gridResolutionX
              THEN [v1 |-> points[i][j], v2 |-> points[i][j + 1]] ELSE null)
        ELSE (IF i < P.gridResolutionZ
              THEN [v1 |-> points[i][j], v2 |-> points[i + 1][j]] ELSE null)
      across == P.gridResolutionX + 1
  IN TheOnly({
       SelectSeq([n \in 1..(2 * across * (P.gridResolutionZ + 1)) |->
                    pushed(points, ((n - 1) \div 2) \div across, ((n - 1) \div 2) % across,
                           (n - 1) % 2)],
                 NotNull)
       : points \in {[i \in 0..P.gridResolutionZ |->
                       [j \in 0..P.gridResolutionX |-> point(i, j)]]} })

\* One frame of the mountain sketch: draw (lines 107-131) rotates between
\* push() and pop().
mountainDraw(P, currentSeed, mode, projMatrix, z) ==
  LET pushed == cameraMatrix
      rotated == rotateZ(rotateY(rotateX(pushed, mode, radians(P.initialRotationX * 1000)),
                                 mode, radians(P.initialRotationY * 1000)),
                         mode, radians(P.initialRotationZ * 1000))
  IN TheOnly({
       [cache |-> lines,
        rendered |-> [mvMatrix |-> rotated, projMatrix |-> projMatrix,
                      lines |-> lines, strokeWeight |-> P.strokeWeight],
        uMVMatrix |-> pushed,
        randomState |-> z]
       : lines \in {generateMountainMeshLines(P, currentSeed)} })

\* ------------------------------------------------------------------------
\* Wormhole: the wormhole generator page (src/unnamed/part_000)
\* ------------------------------------------------------------------------
\* Lengths in pixels, angles in degrees, throatPosition and profileExponent
\* in hundredths, strokeWeight in tenths.
WormholeParams ==
  [gridDensityU : {MinGridDensity},
   gridDensityV : MinGridDensity..MaxGridDensity,
   mouthRadius1 : {150}, mouthRadius2 : {120},
   throatRadius : {50},
   throatPosition : {50},
   length : {400},
   profileExponent : {100, 200},
   strokeWeight : {10},
   initialRotationX : {0, 30},
   initialRotationY : {-30, 0},
   initialRotationZ : {0}]

\* Math.pow(t, e) for t in thousandths and a whole exponent e in hundredths.
RECURSIVE MathPow(_, _)
MathPow(t, e) == IF e < 100 THEN 1000 ELSE (t * MathPow(t, e - 100)) \div 1000

\* A generateHyperboloidLines without the ring at the far end (lines 112-119).
generateHyperboloidLinesOpenEnd(mode, currentParams) ==
  LET P == currentParams
      throatPosition == P.throatPosition * 10
      point(i, j) ==
        LET v == (i * 1000) \div P.gridDensityV
            z == -(P.length * 5) + (v * P.length) \div 100
            currentReferenceMouthRadius ==
              IF v < throatPosition THEN P.mouthRadius1 ELSE P.mouthRadius2
            t_profile ==
              IF throatPosition = 0 /\ v = 0 THEN 0
              ELSE IF throatPosition = 1000 /\ v = 1000 THEN 0
              ELSE IF v <= throatPosition
                   THEN (IF throatPosition = 0 THEN 0
                         ELSE 1000 - (v * 1000) \div throatPosition)
                   ELSE (IF throatPosition = 1000 THEN 0
                         ELSE ((v - throatPosition) * 1000) \div (1000 - throatPosition))
            clamped == Min(1000, Max(0, t_profile))
            currentRadius ==
              P.throatRadius * 10
              + ((currentReferenceMouthRadius - P.throatRadius)
                 * MathPow(clamped, P.profileExponent)) \div 100
            angle == (j * 6283) \div P.gridDensityU
        IN [x |-> (currentRadius * p5cos(mode, angle)) \div 1000,
            y |-> (currentRadius * p5sin(mode, angle)) \div 1000,
            z |-> z]
      \* the two lines the second loop pushes at (i, j): k = 0 along the
      \* length, k = 1 around the ring
      pushed(points, i, j, k) ==
        IF k = 0
        THEN [v1 |-> points[i][j], v2 |-> points[i + 1][j]]
        ELSE [v1 |-> points[i][j], v2 |-> points[i][(j + 1) % P.gridDensityU]]
  IN TheOnly({
       [n \in 1..(2 * P.gridDensityU * P.gridDensityV) |->
          pushed(points, ((n - 1) \div 2) \div P.gridDensityU,
                 ((n - 1) \div 2) % P.gridDensityU, (n - 1) % 2)]
       : points \in {[i \in 0..P.gridDensityV |->
                       [j \in 0..(P.gridDensityU - 1) |-> point(i, j)]]} })

\* generateHyperboloidLines(p5, currentParams).
generateHyperboloidLines(mode, currentParams) ==
  LET P == currentParams
      throatPosition == P.throatPosition * 10
      point(i, j) ==
        LET v == (i * 1000) \div P.gridDensityV
            z == -(P.length * 5) + (v * P.length) \div 100
            currentReferenceMouthRadius ==
              IF v < throatPosition THEN P.mouthRadius1 ELSE P.mouthRadius2
            t_profile ==
              IF throatPosition = 0 /\ v = 0 THEN 0
              ELSE IF throatPosition = 1000 /\ v = 1000 THEN 0
              ELSE IF v <= throatPosition
                   THEN (IF throatPosition = 0 THEN 0
                         ELSE 1000 - (v * 1000) \div throatPosition)
                   ELSE (IF throatPosition = 1000 THEN 0
                         ELSE ((v - throatPosition) * 1000) \div (1000 - throatPosition))
            clamped == Min(1000, Max(0, t_profile))
            currentRadius ==
              P.throatRadius * 10
              + ((currentReferenceMouthRadius - P.throatRadius)
                 * MathPow(clamped, P.profileExponent)) \div 100
            angle == (j * 6283) \div P.gridDensityU
        IN [x |-> (currentRadius * p5cos(mode, angle)) \div 1000,
            y |-> (currentRadius * p5sin(mode, angle)) \div 1000,
            z |-> z]
      \* the two lines the second loop pushes at (i, j): k = 0 along the
      \* length, k = 1 around the ring
      pushed(points, i, j, k) ==
        IF k = 0
        THEN [v1 |-> points[i][j], v2 |-> points[i + 1][j]]
        ELSE [v1 |-> points[i][j], v2 |-> points[i][(j + 1) % P.gridDensityU]]
  IN TheOnly({
       [n \in 1..(2 * P.gridDensityU * P.gridDensityV) |->
          pushed(points, ((n - 1) \div 2) \div P.gridDensityU,
                 ((n - 1) \div 2) % P.gridDensityU, (n - 1) % 2)]
       \o (IF P.gridDensityV > 0
           THEN [m \in 1..P.gridDensityU |->
                   [v1 |-> points[P.gridDensityV][m - 1],
                    v2 |-> points[P.gridDensityV][m % P.gridDensityU]]]
           ELSE << >>)
       : points \in {[i \in 0..P.gridDensityV |->
                       [j \in 0..(P.gridDensityU - 1) |-> point(i, j)]]} })

\* One frame of the wormhole sketch: draw (lines 123-144) rotates without
\* push() or pop().
wormholeDraw(P, mode, projMatrix, z) ==
  LET rotated == rotateZ(rotateY(rotateX(cameraMatrix, mode,
                                         radians(P.initialRotationX * 1000)),
                                 mode, radians(P.initialRotationY * 1000)),
                         mode, radians(P.initialRotationZ * 1000))
  IN TheOnly({
       [cache |-> lines,
        rendered |-> [mvMatrix |-> mv, projMatrix |-> projMatrix,
                      lines |-> lines, strokeWeight |-> P.strokeWeight],
        uMVMatrix |-> mv,
        randomState |-> z]
       : lines \in {generateHyperboloidLines(mode, P)}, mv \in {rotated} })

\* ------------------------------------------------------------------------
\* Voronoi: voronoi-diagram/page.tsx
\* ------------------------------------------------------------------------
\* Lengths in pixels, clusterFactor in hundredths.
VoronoiParams ==
  [numPoints : MinPoints..MaxPoints,
   boundaryMargin : {20, 100},
   minDistance : {0, 100},
   distributionType : {"random", "uniform", "clustered"},
   clusterFactor : {50}]

\* numClusters of line 73.
numClustersOf(currentParams) == Max(1, (200 + currentParams.clusterFactor * 8) \div 100)

\* The number of random() calls generatePoints makes: two a point, and two
\* a cluster centre before them.
PointDraws(currentParams) ==
  IF currentParams.distributionType = "clustered"
  THEN 2 * numClustersOf(currentParams) + 2 * currentParams.numPoints
  ELSE 2 * currentParams.numPoints

\* The points of generatePoints before the minimum-distance filter (lines
\* 50-104), in tenths of a pixel.
UnfilteredPoints(currentParams, z) ==
  LET P == currentParams
      margin == P.boundaryMargin * 10
      width == 8000 - 2 * margin
      height == 6000 - 2 * margin
      n == P.numPoints
      cols == CHOOSE c \in 1..(n + 1) :
                /\ c * c * height >= n * width
                /\ (c - 1) * (c - 1) * height < n * width
      rows == (n + cols - 1) \div cols
      cellWidth == width \div cols
      cellHeight == height \div rows
      uniform(i) ==
        LET col == i % cols
            row == i \div cols
            centerX == margin + col * cellWidth + cellWidth \div 2
            centerY == margin + row * cellHeight + cellHeight \div 2
            offsetX == random(z, 2 * i + 1,
                              -((cellWidth * 3) \div 10), (cellWidth * 3) \div 10)
            offsetY == random(z, 2 * i + 2,
                              -((cellHeight * 3) \div 10), (cellHeight * 3) \div 10)
        IN <<centerX + offsetX, centerY + offsetY>>
      numClusters == numClustersOf(P)
      clusterCenter(c) ==
        <<random(z, 2 * c + 1, margin + 500, 8000 - margin - 500),
          random(z, 2 * c + 2, margin + 500, 6000 - margin - 500)>>
      clustered(i) ==
        LET cluster == clusterCenter(i % numClusters)
            maxRadius == 200 + (100 - P.clusterFactor) * 10
            radius == random(z, 2 * numClusters + 2 * i + 1, 0, maxRadius)
            angle == random(z, 2 * numClusters + 2 * i + 2, 0, 6283)
            x == cluster[1] + (MathCos(angle) * radius) \div 1000
            y == cluster[2] + (MathSin(angle) * radius) \div 1000
        IN <<constrain(x, margin, 8000 - margin), constrain(y, margin, 6000 - margin)>>
      scattered(i) ==
        <<random(z, 2 * i + 1, margin, 8000 - margin),
          random(z, 2 * i + 2, margin, 6000 - margin)>>
  IN [k \in 1..n |->
        IF P.distributionType = "uniform" THEN uniform(k - 1)
        ELSE IF P.distributionType = "clustered" THEN clustered(k - 1)
        ELSE scattered(k - 1)]

\* A filter that compares a point with the last kept point only.
RECURSIVE FilterPointsLastOnly(_, _, _)
FilterPointsLastOnly(points, filteredPoints, minDistance) ==
  IF points = << >> THEN filteredPoints
  ELSE
    LET point == Head(points)
        tooClose ==
          \E e \in {Len(filteredPoints)} \ {0} :
            LET dx == point[1] - filteredPoints[e][1]
                dy == point[2] - filteredPoints[e][2]
            IN dx * dx + dy * dy < minDistance * minDistance
    IN FilterPointsLastOnly(Tail(points),
                            IF tooClose THEN filteredPoints
                            ELSE Append(filteredPoints, point),
                            minDistance)

\* The loop of lines 110-124: a point is kept unless it is nearer than
\* minDistance to a point kept before it.
RECURSIVE FilterPoints(_, _, _)
FilterPoints(points, filteredPoints, minDistance) ==
  IF points = << >> THEN filteredPoints
  ELSE
    LET point == Head(points)
        tooClose ==
          \E e \in 1..Len(filteredPoints) :
            LET dx == point[1] - filteredPoints[e][1]
                dy == point[2] - filteredPoints[e][2]
            IN dx * dx + dy * dy < minDistance * minDistance
    IN FilterPoints(Tail(points),
                    IF tooClose THEN filteredPoints ELSE Append(filteredPoints, point),
                    minDistance)

\* generatePoints(p5, currentParams).
\* The end of generatePoints, lines 106-129: the filter when minDistance > 0.
applyMinDistance(points, minDistance) ==
  IF minDistance > 0 THEN FilterPoints(points, << >>, minDistance) ELSE points

generatePoints(currentParams, z) ==
  applyMinDistance(UnfilteredPoints(currentParams, z),
                   currentParams.minDistance * 10)

\* Delaunay.from(points) and delaunay.voronoi(bounds): the triangulation and
\* the tessellation, each standing for what was computed from its points.
DelaunayFrom(points) == [points |-> points]
VoronoiOf(d, bounds) == [delaunay |-> d, bounds |-> bounds]

\* A generateVoronoiDiagram that keeps the earlier triangulation when there
\* are fewer than three sites.
generateVoronoiDiagramKeepsStale(refs, currentParams, currentSeed, z) ==
  LET seeded == randomSeed(currentSeed)
  IN TheOnly({
       IF Len(newSites) >= 3
       THEN [sites |-> newSites,
             delaunay |-> DelaunayFrom(newSites),
             voronoi |-> VoronoiOf(DelaunayFrom(newSites), <<0, 0, 8000, 6000>>),
             randomState |-> after]
       ELSE [sites |-> newSites, delaunay |-> refs.delaunay, voronoi |-> refs.voronoi,
             randomState |-> after]
       : newSites \in {generatePoints(currentParams, seeded)},
         after \in {lcgAfter(seeded, PointDraws(currentParams))} })

\* generateVoronoiDiagram(p5, currentParams, currentSeed) on the three refs,
\* called with the generator in state z: line 133 seeds the generator before
\* generatePoints draws from it.
generateVoronoiDiagram(refs, currentParams, currentSeed, z) ==
  LET seeded == randomSeed(currentSeed)
  IN TheOnly({
       IF Len(newSites) >= 3
       THEN [sites |-> newSites,
             delaunay |-> DelaunayFrom(newSites),
             voronoi |-> VoronoiOf(DelaunayFrom(newSites), <<0, 0, 8000, 6000>>),
             randomState |-> after]
       ELSE [sites |-> newSites, delaunay |-> null, voronoi |-> null,
             randomState |-> after]
       : newSites \in {generatePoints(currentParams, seeded)},
         after \in {lcgAfter(seeded, PointDraws(currentParams))} })

\* voronoi.cellPolygon(i): the cell of the tessellation's i-th point, null
\* for a point that coincides with an earlier one; it fails for an index the
\* tessellation has no point for.
cellPolygon(v, i) ==
  LET points == v.delaunay.points
  IN IF i > Len(points) THEN [failed |-> TRUE]
     ELSE IF \E e \in 1..(i - 1) : points[e] = points[i] THEN null
     ELSE [failed |-> FALSE, site |-> points[i], bounds |-> v.bounds]

NotFailed(c) == ~c.failed

RECURSIVE CellsFrom(_, _, _)
CellsFrom(v, count, i) ==
  IF i > count THEN << >>
  ELSE TheOnly({ IF cell = null THEN << >> ELSE << cell >> : cell \in {cellPolygon(v, i)} })
       \o CellsFrom(v, count, i + 1)

\* drawVoronoiCells(p5): the closed shapes drawn, and whether a call failed.
drawVoronoiCells(refs) ==
  IF refs.voronoi = null \/ Len(refs.sites) = 0
  THEN [failed |-> FALSE, polygons |-> << >>]
  ELSE TheOnly({
         [failed |-> \E k \in 1..Len(cells) : cells[k].failed,
          polygons |-> SelectSeq(cells, NotFailed)]
         : cells \in {CellsFrom(refs.voronoi, Len(refs.sites), 1)} })

\* The test of line 195.
ExportUnavailable(refs) == refs.voronoi = null \/ Len(refs.sites) = 0

\* ------------------------------------------------------------------------
\* The sketch pages as state machines
\* ------------------------------------------------------------------------
Refs == [sites |-> sites, delaunay |-> delaunay, voronoi |-> voronoi]

InitSketch ==
  /\ page \in {"voronoi", "boxes", "mountain", "wormhole"}
  /\ density = 0
  /\ grid = EmptyGrid
  /\ solutionPath = << >>
  /\ svgChildren = << >>
  /\ showSolution = TRUE
  /\ aspectRatio = "1:1"
  /\ newGrid = EmptyGrid
  /\ stack = << >>
  /\ currentCell = null
  /\ pc = IF page = "voronoi" THEN "mounted" ELSE "sketch"
  /\ solveStart = null
  /\ solveEnd = null
  /\ emitted = NoDoc
  /\ logged = NoLog
  /\ p5Ready = FALSE
  /\ angleMode = "radians"
  /\ params \in CASE page = "voronoi" -> VoronoiParams
                  [] page = "boxes" -> BoxParams
                  [] page = "mountain" -> MountainParams
                  [] OTHER -> WormholeParams
  /\ rendered = << >>
  /\ seed \in IF page = "voronoi" THEN {1234} ELSE Seeds
  /\ generatedBoxesCache = << >>
  /\ lineSegmentsCache = << >>
  /\ sites = << >>
  /\ delaunay = null
  /\ voronoi = null
  /\ uMVMatrix = null
  /\ uPMatrix = null
  /\ randomState = null

voronoiFrame == <<page, angleMode, generatedBoxesCache, lineSegmentsCache, uMVMatrix,
                  uPMatrix, sketchFrame>>

\* The effect of lines 41-43, run once after the page is mounted; the sketch
\* does not exist yet, so the effect of lines 183-188 does nothing.
voronoiMountEffect ==
  /\ page = "voronoi"
  /\ pc = "mounted"
  /\ pc' = "sketch"
  /\ seed' \in Seeds
  /\ emitted' = NoDoc
  /\ logged' = NoLog
  /\ UNCHANGED <<page, p5Ready, angleMode, params, rendered, generatedBoxesCache,
                 lineSegmentsCache, sites, delaunay, voronoi, uMVMatrix, uPMatrix,
                 randomState, density, grid, solutionPath, svgChildren, showSolution,
                 aspectRatio, newGrid, stack, currentCell, solveStart, solveEnd>>

\* setup(p5Setup, canvasParentRef), lines 168-174, and the first frame.
voronoiSetup ==
  /\ page = "voronoi"
  /\ pc = "sketch"
  /\ ~p5Ready
  /\ p5Ready' = TRUE
  /\ \E r \in {generateVoronoiDiagram(Refs, params, seed, randomState)} :
       /\ sites' = r.sites
       /\ delaunay' = r.delaunay
       /\ voronoi' = r.voronoi
       /\ randomState' = r.randomState
       /\ rendered' = drawVoronoiCells(r)
  /\ emitted' = NoDoc
  /\ logged' = NoLog
  /\ UNCHANGED <<params, seed, voronoiFrame>>

\* The effect of lines 183-188 after params or seed changed.
voronoiEffect(newParams, newSeed) ==
  /\ params' = newParams
  /\ seed' = newSeed
  /\ IF p5Ready
     THEN \E r \in {generateVoronoiDiagram(Refs, newParams, newSeed, randomState)} :
            /\ sites' = r.sites
            /\ delaunay' = r.delaunay
            /\ voronoi' = r.voronoi
            /\ randomState' = r.randomState
            /\ rendered' = drawVoronoiCells(r)
     ELSE UNCHANGED <<sites, delaunay, voronoi, rendered, randomState>>
  /\ emitted' = NoDoc
  /\ logged' = NoLog
  /\ UNCHANGED <<p5Ready, voronoiFrame>>

\* handleParamChange(paramName, value), lines 45-47, and the effect.
voronoiHandleParamChange ==
  /\ page = "voronoi"
  /\ pc = "sketch"
  /\ \E P \in VoronoiParams :
       /\ Cardinality({f \in DOMAIN P : P[f] # params[f]}) = 1
       /\ voronoiEffect(P, seed)

\* regenerate (lines 190-192) or the seed input (line 327), and the effect.
voronoiRegenerate ==
  /\ page = "voronoi"
  /\ pc = "sketch"
  /\ \E s \in Seeds :
       /\ s # seed
       /\ voronoiEffect(params, s)

\* exportSVG, lines 194-224.
voronoiExportSVG ==
  /\ page = "voronoi"
  /\ pc = "sketch"
  /\ IF ExportUnavailable(Refs)
     THEN /\ logged' = "error"
          /\ emitted' = NoDoc
     ELSE /\ logged' = NoLog
          /\ emitted' = [kind |-> "svg", name |-> <<"voronoi-diagram", seed>>,
                         polygons |-> CellsFrom(voronoi, Len(sites), 1)]
  /\ UNCHANGED <<p5Ready, params, seed, rendered, sites, delaunay, voronoi, randomState,
                 voronoiFrame>>

solidFrame == <<page, sites, delaunay, voronoi, sketchFrame>>

\* What a frame leaves in the canvas, the renderer and the page's cache.
ApplyFrame(f) ==
  /\ rendered' = f.rendered
  /\ uMVMatrix' = f.uMVMatrix
  /\ uPMatrix' = perspectiveMatrix
  /\ randomState' = f.randomState
  /\ IF page = "boxes"
     THEN generatedBoxesCache' = f.cache /\ UNCHANGED lineSegmentsCache
     ELSE lineSegmentsCache' = f.cache /\ UNCHANGED generatedBoxesCache

\* redraw(): the frame is drawn before the call returns.
Redraw(frame) == \E f \in {frame} : ApplyFrame(f)

\* setup(p5Setup, canvasParentRef), abstract-boxes lines 394-401, and the
\* first frame.
boxesSetup ==
  /\ page = "boxes"
  /\ ~p5Ready
  /\ p5Ready' = TRUE
  /\ angleMode' = "degrees"
  /\ Redraw(boxesDraw(params, seed, "degrees", perspectiveMatrix, randomSeed(seed)))
  /\ emitted' = NoDoc
  /\ logged' = NoLog
  /\ UNCHANGED <<params, seed, solidFrame>>

\* setup(p5Setup, canvasParentRef), mountain-generator lines 57-62, and the
\* first frame.
mountainSetup ==
  /\ page = "mountain"
  /\ ~p5Ready
  /\ p5Ready' = TRUE
  /\ Redraw(mountainDraw(params, seed, angleMode, perspectiveMatrix, randomState))
  /\ emitted' = NoDoc
  /\ logged' = NoLog
  /\ UNCHANGED <<params, seed, angleMode, solidFrame>>

\* setup(p5Setup, canvasParentRef), wormhole lines 57-63, and the first frame.
wormholeSetup ==
  /\ page = "wormhole"
  /\ ~p5Ready
  /\ p5Ready' = TRUE
  /\ Redraw(wormholeDraw(params, angleMode, perspectiveMatrix, randomSeed(seed)))
  /\ emitted' = NoDoc
  /\ logged' = NoLog
  /\ UNCHANGED <<params, seed, angleMode, solidFrame>>

\* A state change of a WEBGL page and its effect: the frame is drawn when the
\* sketch exists and the effect depends on what changed.
solidEffect(newParams, newSeed, redraws, frame) ==
  /\ params' = newParams
  /\ seed' = newSeed
  /\ IF p5Ready /\ redraws
     THEN Redraw(frame)
     ELSE UNCHANGED <<rendered, uMVMatrix, uPMatrix, randomState, generatedBoxesCache,
                      lineSegmentsCache>>
  /\ emitted' = NoDoc
  /\ logged' = NoLog
  /\ UNCHANGED <<p5Ready, angleMode, solidFrame>>

\* handleParamChange, abstract-boxes lines 374-376, and the effect of 525-531.
boxesHandleParamChange ==
  /\ page = "boxes"
  /\ \E P \in BoxParams :
       /\ Cardinality({f \in DOMAIN P : P[f] # params[f]}) = 1
       /\ solidEffect(P, seed, TRUE,
                      boxesDraw(P, seed, angleMode, perspectiveMatrix, randomSeed(seed)))

\* regenerate, abstract-boxes lines 533-535, and the effect of 525-531.
boxesRegenerate ==
  /\ page = "boxes"
  /\ \E s \in Seeds :
       /\ s # seed
       /\ solidEffect(params, s, TRUE,
                      boxesDraw(params, s, angleMode, perspectiveMatrix, randomSeed(s)))

\* handleParamChange, mountain-generator lines 53-55, and the effect of 133-138.
mountainHandleParamChange ==
  /\ page = "mountain"
  /\ \E P \in MountainParams :
       /\ Cardinality({f \in DOMAIN P : P[f] # params[f]}) = 1
       /\ solidEffect(P, seed, TRUE,
                      mountainDraw(P, seed, angleMode, perspectiveMatrix, randomState))

\* regenerate, mountain-generator lines 140-142, and the effect of 133-138.
mountainRegenerate ==
  /\ page = "mountain"
  /\ \E s \in Seeds :
       /\ s # seed
       /\ solidEffect(params, s, TRUE,
                      mountainDraw(params, s, angleMode, perspectiveMatrix, randomState))

\* handleParamChange, wormhole lines 53-55, and the effect of 146-150.
wormholeHandleParamChange ==
  /\ page = "wormhole"
  /\ \E P \in WormholeParams :
       /\ Cardinality({f \in DOMAIN P : P[f] # params[f]}) = 1
       /\ solidEffect(P, seed, TRUE,
                      wormholeDraw(P, angleMode, perspectiveMatrix, randomState))

\* regenerate, wormhole lines 152-154: draw does not depend on the seed, so
\* the effect of lines 146-150 does not run.
wormholeRegenerate ==
  /\ page = "wormhole"
  /\ \E s \in Seeds :
       /\ s # seed
       /\ solidEffect(params, s, FALSE, rendered)

\* An exportSVG of a WEBGL page without the test on the sketch and the cache.
solidExportSVGNoTest(cache, frame, fileName, xBuffer, yBuffer) ==
  \E f \in {frame} :
    /\ ApplyFrame(f)
    /\ \E lines \in {ExportLines(f.rendered.lines, f.uMVMatrix, perspectiveMatrix,
                                 xBuffer, yBuffer)} :
         /\ logged' = IF Len(lines) = 0 THEN "warn" ELSE "log"
         /\ emitted' = [kind |-> "svg", name |-> <<fileName, seed>>,
                        strokeWidth |-> params.strokeWeight,
                        mvMatrix |-> f.uMVMatrix, projMatrix |-> perspectiveMatrix,
                        lines |-> lines]

\* exportSVG of a WEBGL page: the test on the sketch and the cache, redraw(),
\* then the cached segments projected with the renderer's matrices.  xBuffer
\* and yBuffer are the page's bounds around the canvas.
solidExportSVG(cache, frame, fileName, xBuffer, yBuffer) ==
  IF ~p5Ready \/ Len(cache) = 0
  THEN /\ logged' = "error"
       /\ emitted' = NoDoc
       /\ UNCHANGED <<rendered, uMVMatrix, uPMatrix, randomState, generatedBoxesCache,
                      lineSegmentsCache>>
  ELSE \E f \in {frame} :
         /\ ApplyFrame(f)
         /\ \E lines \in {ExportLines(f.rendered.lines, f.uMVMatrix, perspectiveMatrix,
                                      xBuffer, yBuffer)} :
              /\ logged' = IF Len(lines) = 0 THEN "warn" ELSE "log"
              /\ emitted' = [kind |-> "svg", name |-> <<fileName, seed>>,
                             strokeWidth |-> params.strokeWeight,
                             mvMatrix |-> f.uMVMatrix, projMatrix |-> perspectiveMatrix,
                             lines |-> lines]

\* exportSVG, abstract-boxes lines 574-618.
boxesExportSVG ==
  /\ page = "boxes"
  /\ solidExportSVG(generatedBoxesCache,
                    boxesDraw(params, seed, angleMode, perspectiveMatrix, randomState),
                    "abstract-boxes", 4000, 4000)
  /\ UNCHANGED <<p5Ready, angleMode, params, seed, solidFrame>>

\* exportSVG, mountain-generator lines 188-241.
mountainExportSVG ==
  /\ page = "mountain"
  /\ solidExportSVG(lineSegmentsCache,
                    mountainDraw(params, seed, angleMode, perspectiveMatrix, randomState),
                    "mountain-terrain", 4000, 4000)
  /\ UNCHANGED <<p5Ready, angleMode, params, seed, solidFrame>>

\* exportSVG, wormhole lines 201-254.
wormholeExportSVG ==
  /\ page = "wormhole"
  /\ solidExportSVG(lineSegmentsCache,
                    wormholeDraw(params, angleMode, perspectiveMatrix, randomState),
                    "wormhole", 4000, 3000)
  /\ UNCHANGED <<p5Ready, angleMode, params, seed, solidFrame>>

NextSketch ==
  \/ voronoiMountEffect
  \/ voronoiSetup
  \/ voronoiHandleParamChange
  \/ voronoiRegenerate
  \/ voronoiExportSVG
  \/ boxesSetup
  \/ boxesHandleParamChange
  \/ boxesRegenerate
  \/ boxesExportSVG
  \/ mountainSetup
  \/ mountainHandleParamChange
  \/ mountainRegenerate
  \/ mountainExportSVG
  \/ wormholeSetup
  \/ wormholeHandleParamChange
  \/ wormholeRegenerate
  \/ wormholeExportSVG

SpecSketch == InitSketch /\ [][NextSketch]_vars

\* ------------------------------------------------------------------------
\* The minimum-distance filter of generatePoints on arbitrary points
\* ------------------------------------------------------------------------
\* Points on a small lattice, with pairs at distance 3, 4, 5 and 6.
LatticePoints == {<<x, y>> : x \in {0, 3, 6}, y \in {0, 4}}

PointLists == UNION {[1..n -> LatticePoints] : n \in 1..MaxFilterPoints}

InitFilter ==
  /\ page = "voronoi"
  /\ NoMaze
  /\ pc = "sketch"
  /\ p5Ready = TRUE
  /\ angleMode = "radians"
  /\ params \in [minDistance : {0, 4, 5}]
  /\ rendered = null
  /\ seed = 0
  /\ generatedBoxesCache = << >>
  /\ lineSegmentsCache = << >>
  /\ sites \in PointLists
  /\ delaunay = null
  /\ voronoi = null
  /\ uMVMatrix = null
  /\ uPMatrix = null
  /\ randomState = null
  /\ emitted = NoDoc
  /\ logged = NoLog

\* Lines 106-129 on the points generated so far (held in sites); the list
\* returned is held in rendered.
filterPoints ==
  /\ rendered = null
  /\ rendered' = [points |-> applyMinDistance(sites, params.minDistance)]
  /\ UNCHANGED <<page, p5Ready, angleMode, params, seed, generatedBoxesCache,
                 lineSegmentsCache, sites, delaunay, voronoi, uMVMatrix, uPMatrix,
                 randomState, emitted, logged, sketchFrame>>

NextFilter == filterPoints

SpecFilter == InitFilter /\ [][NextFilter]_vars

\* ------------------------------------------------------------------------
\* The export loop of the WEBGL pages on arbitrary segments and matrices
\* ------------------------------------------------------------------------
\* World points in tenths of a pixel: the origin and a point beside it, a
\* point far to the right, a point that is inside the bounds of the boxes
\* and mountain pages only, a point in the camera's plane (w = 0) and a
\* point behind the camera.
WorldPoints ==
  {[x |-> 0, y |-> 0, z |-> 0], [x |-> 1000, y |-> 500, z |-> 0],
   [x |-> 9000, y |-> 0, z |-> 0], [x |-> 0, y |-> -6500, z |-> 0],
   [x |-> 0, y |-> 0, z |-> 5197], [x |-> 0, y |-> 0, z |-> 6000]}

SegmentLists ==
  UNION {[1..n -> [v1 : WorldPoints, v2 : WorldPoints]] : n \in 1..MaxSegments}

\* The segments the page's cache holds, in the order exportSVG visits them.
CachedSegments ==
  IF page = "boxes" THEN BoxSegments(generatedBoxesCache) ELSE lineSegmentsCache

\* The page's bounds around the canvas: boxes and mountain lines 592 and 212,
\* wormhole lines 226-227.
xBufferOf(pg) == 4000
yBufferOf(pg) == IF pg = "wormhole" THEN 3000 ELSE 4000

InitProject ==
  /\ page \in {"boxes", "mountain", "wormhole"}
  /\ NoMaze
  /\ p5Ready = TRUE
  /\ angleMode = "radians"
  /\ params = [strokeWeight |-> 10]
  /\ rendered = << >>
  /\ seed = 0
  /\ \E segs \in SegmentLists :
       /\ generatedBoxesCache = IF page = "boxes" THEN << [lines |-> segs] >> ELSE << >>
       /\ lineSegmentsCache = IF page = "boxes" THEN << >> ELSE segs
  /\ sites = << >>
  /\ delaunay = null
  /\ voronoi = null
  /\ uMVMatrix \in {null, cameraMatrix}
  /\ uPMatrix \in {null, perspectiveMatrix}
  /\ randomState = null
  /\ emitted = NoDoc
  /\ logged = NoLog

\* The loop of exportSVG over the cache (abstract-boxes lines 587-607,
\* mountain-generator 203-227, wormhole 217-240) with the matrices the
\* renderer holds.
exportLoop ==
  /\ emitted = NoDoc
  /\ \E lines \in {ExportLines(CachedSegments, uMVMatrix, uPMatrix,
                                xBufferOf(page), yBufferOf(page))} :
       /\ logged' = IF Len(lines) = 0 THEN "warn" ELSE "log"
       /\ emitted' = [kind |-> "svg", name |-> <<page, seed>>,
                      strokeWidth |-> params.strokeWeight,
                      mvMatrix |-> uMVMatrix, projMatrix |-> uPMatrix,
                      lines |-> lines]
  /\ UNCHANGED <<sketchVars, sketchFrame>>

NextProject == exportLoop

SpecProject == InitProject /\ [][NextProject]_vars

\* ------------------------------------------------------------------------
\* Tiling patterns (layout.tsx, TilingPatternsPage): draw and exportSVG
\* ------------------------------------------------------------------------
\* On this page lengths are in thousandths of a pixel on the canvas and in
\* hundredths in the document; sizeRandomness and fillProbability are in
\* thousandths, strokeWeight in tenths.
MaxRandomSeed == 43

\* p5.createCanvas(800, 600).
CanvasWidth == 800
CanvasHeight == 600

\* The initial value of randomSeed.
InitialRandomSeed == 42

TileShapes == {"square", "triangle", "hexagon", "diamond", "circle"}

\* The page's state (lines 51-57) at values its controls can set.
TilingParams ==
  [tileShape : TileShapes,
   baseTileSize : {78, 80},
   sizeRandomness : {0, 300},
   fillProbability : {700},
   strokeWeight : {10},
   tileSpacing : {2},
   randomSeed : InitialRandomSeed..MaxRandomSeed]

\* Sixty-four, ... two hundred and fifty-six steps of the generator.
lcg64(z) == TheOnly({ lcg32(y) : y \in {lcg32(z)} })
lcg128(z) == TheOnly({ lcg64(y) : y \in {lcg64(z)} })
lcg256(z) == TheOnly({ lcg128(y) : y \in {lcg128(z)} })

\* The generator's state after k steps from z, for k < 512.
lcgAfterMany(z, k) ==
  TheOnly({ lcgAfter(c, k % 64) : c \in {
  TheOnly({ IF (k \div 256) % 2 = 1 THEN lcg256(b) ELSE b : b \in {
  TheOnly({ IF (k \div 128) % 2 = 1 THEN lcg128(a) ELSE a : a \in {
            IF (k \div 64) % 2 = 1 THEN lcg64(z) ELSE z} }) } }) } })

\* Number.prototype.toFixed(2) of a length in thousandths: hundredths, the
\* nearer one, the larger in magnitude of two equally near.
toFixed2(v) == IF v < 0 THEN -((5 - v) \div 10) ELSE (v + 5) \div 10

\* The angle of the i-th corner of a hexagon, (i * TWO_PI) / 6.
HexagonAngle(i) == (i * 6283) \div 6

\* drawSquare, drawTriangle, drawHexagon, drawDiamond, drawCircle (lines
\* 67-123): the p5 call each makes, with its arguments and the fill in force.
drawSquare(x, y, size, filled) ==
  [call |-> "square", args |-> <<x, y, size>>, fill |-> filled]

drawTriangle(x, y, size, filled) ==
  LET h == (size * 866) \div 1000
  IN [call |-> "triangle", args |-> <<x + size \div 2, y, x, y + h, x + size, y + h>>,
      fill |-> filled]

drawHexagon(x, y, size, filled) ==
  LET radius == size \div 2
  IN [call |-> "shape",
      translate |-> <<x + radius, y + radius>>,
      vertices |-> [k \in 1..6 |->
                      <<(radius * p5cos("radians", HexagonAngle(k - 1))) \div 1000,
                        (radius * p5sin("radians", HexagonAngle(k - 1))) \div 1000>>],
      fill |-> filled]

drawDiamond(x, y, size, filled) ==
  LET half == size \div 2
  IN [call |-> "quad",
      args |-> <<x + half, y, x + size, y + half, x + half, y + size, x, y + half>>,
      fill |-> filled]

drawCircle(x, y, size, filled) ==
  [call |-> "circle", args |-> <<x + size \div 2, y + size \div 2, size>>, fill |-> filled]

\* drawTile, lines 125-143.
drawTile(tileShape, x, y, size, filled) ==
  CASE tileShape = "square" -> drawSquare(x, y, size, filled)
    [] tileShape = "triangle" -> drawTriangle(x, y, size, filled)
    [] tileShape = "hexagon" -> drawHexagon(x, y, size, filled)
    [] tileShape = "diamond" -> drawDiamond(x, y, size, filled)
    [] tileShape = "circle" -> drawCircle(x, y, size, filled)

\* draw(p5), lines 145-182: the tiles drawn, in order, and the state the
\* generator is left in.  Tile n (from 0) is tile col = n % numCols of row
\* n \div numCols; the generator has made four calls for each tile before it.
tilingDraw(P) ==
  LET effectiveTileSize == P.baseTileSize + P.tileSpacing
      numCols == (CanvasWidth + effectiveTileSize - 1) \div effectiveTileSize + 1
      numRows == (CanvasHeight + effectiveTileSize - 1) \div effectiveTileSize + 1
      tile(z, n) ==
        LET baseX == (n % numCols) * effectiveTileSize * 1000
            baseY == (n \div numCols) * effectiveTileSize * 1000
            sizeVariation == random(z, 1, -P.sizeRandomness, P.sizeRandomness)
            currentSize == P.baseTileSize * (1000 + sizeVariation)
            offsetX == random(z, 2, -1000 * P.tileSpacing, 1000 * P.tileSpacing)
            offsetY == random(z, 3, -1000 * P.tileSpacing, 1000 * P.tileSpacing)
            x == baseX + offsetX
            y == baseY + offsetY
            filled == random(z, 4, 0, 1000) < P.fillProbability
        IN IF /\ x < CanvasWidth * 1000
              /\ y < CanvasHeight * 1000
              /\ x + currentSize > 0
              /\ y + currentSize > 0
           THEN drawTile(P.tileShape, x, y, currentSize, filled)
           ELSE null
  IN TheOnly({
       [strokeWeight |-> P.strokeWeight,
        tiles |-> SelectSeq([n \in 1..(numRows * numCols) |->
                               TheOnly({ tile(z, n - 1) : z \in {lcgAfterMany(z0, 4 * (n - 1))} })],
                            NotNull),
        randomState |-> lcgAfterMany(z0, 4 * numRows * numCols)]
       : z0 \in {randomSeed(P.randomSeed)} })

\* The element exportSVG writes for one tile (lines 222-269); fill is the
\* element's own fill="black" or the fill="none" of the group.
exportTile(tileShape, x, y, currentSize, filled) ==
  LET fillAttr == IF filled THEN "black" ELSE "none"
  IN CASE tileShape = "square" ->
            [tag |-> "rect", x |-> toFixed2(x), y |-> toFixed2(y),
             width |-> toFixed2(currentSize), height |-> toFixed2(currentSize),
             fill |-> fillAttr]
       [] tileShape = "triangle" ->
            LET h == (currentSize * 866) \div 1000
                x1 == x + currentSize \div 2
                y1 == y
                x2 == x
                y2 == y + h
                x3 == x + currentSize
                y3 == y + h
            IN [tag |-> "polygon",
                points |-> <<toFixed2(x1), toFixed2(y1), toFixed2(x2), toFixed2(y2),
                             toFixed2(x3), toFixed2(y3)>>,
                fill |-> fillAttr]
       [] tileShape = "hexagon" ->
            LET radius == currentSize \div 2
                cx == x + radius
                cy == y + radius
                px(i) == cx + (radius * MathCos(HexagonAngle(i))) \div 1000
                py(i) == cy + (radius * MathSin(HexagonAngle(i))) \div 1000
            IN [tag |-> "polygon",
                points |-> [k \in 1..12 |->
                              IF k % 2 = 1 THEN toFixed2(px((k - 1) \div 2))
                              ELSE toFixed2(py((k - 1) \div 2))],
                fill |-> fillAttr]
       [] tileShape = "diamond" ->
            LET half == currentSize \div 2
            IN [tag |-> "polygon",
                points |-> <<toFixed2(x + half), toFixed2(y),
                             toFixed2(x + currentSize), toFixed2(y + half),
                             toFixed2(x + half), toFixed2(y + currentSize),
                             toFixed2(x), toFixed2(y + half)>>,
                fill |-> fillAttr]
       [] tileShape = "circle" ->
            LET cr == currentSize \div 2
            IN [tag |-> "circle", cx |-> toFixed2(x + cr), cy |-> toFixed2(y + cr),
                r |-> toFixed2(cr), fill |-> fillAttr]

\* An exportSVG that goes on from the state the generator is in.
tilingExportNotReseeded(P, state) ==
  LET effectiveTileSize == P.baseTileSize + P.tileSpacing
      numCols == (CanvasWidth + effectiveTileSize - 1) \div effectiveTileSize + 1
      numRows == (CanvasHeight + effectiveTileSize - 1) \div effectiveTileSize + 1
      tile(z, n) ==
        LET baseX == (n % numCols) * effectiveTileSize * 1000
            baseY == (n \div numCols) * effectiveTileSize * 1000
            sizeVariation == random(z, 1, -P.sizeRandomness, P.sizeRandomness)
            currentSize == P.baseTileSize * (1000 + sizeVariation)
            offsetX == random(z, 2, -1000 * P.tileSpacing, 1000 * P.tileSpacing)
            offsetY == random(z, 3, -1000 * P.tileSpacing, 1000 * P.tileSpacing)
            x == baseX + offsetX
            y == baseY + offsetY
            filled == random(z, 4, 0, 1000) < P.fillProbability
        IN IF /\ x < CanvasWidth * 1000
              /\ y < CanvasHeight * 1000
              /\ x + currentSize > 0
              /\ y + currentSize > 0
           THEN exportTile(P.tileShape, x, y, currentSize, filled)
           ELSE null
  IN TheOnly({
       [doc |-> [kind |-> "svg", name |-> "tiling_pattern.svg",
                 width |-> CanvasWidth, height |-> CanvasHeight,
                 strokeWidth |-> P.strokeWeight,
                 elements |-> SelectSeq(
                   [n \in 1..(numRows * numCols) |->
                      TheOnly({ tile(z, n - 1) : z \in {lcgAfterMany(z0, 4 * (n - 1))} })],
                   NotNull)],
        randomState |-> lcgAfterMany(z0, 4 * numRows * numCols)]
       : z0 \in {state} })

\* exportSVG's document, lines 194-274, and the state the generator is left
\* in; state is the generator's state when the handler is called.
tilingExport(P, state) ==
  LET effectiveTileSize == P.baseTileSize + P.tileSpacing
      numCols == (CanvasWidth + effectiveTileSize - 1) \div effectiveTileSize + 1
      numRows == (CanvasHeight + effectiveTileSize - 1) \div effectiveTileSize + 1
      tile(z, n) ==
        LET baseX == (n % numCols) * effectiveTileSize * 1000
            baseY == (n \div numCols) * effectiveTileSize * 1000
            sizeVariation == random(z, 1, -P.sizeRandomness, P.sizeRandomness)
            currentSize == P.baseTileSize * (1000 + sizeVariation)
            offsetX == random(z, 2, -1000 * P.tileSpacing, 1000 * P.tileSpacing)
            offsetY == random(z, 3, -1000 * P.tileSpacing, 1000 * P.tileSpacing)
            x == baseX + offsetX
            y == baseY + offsetY
            filled == random(z, 4, 0, 1000) < P.fillProbability
        IN IF /\ x < CanvasWidth * 1000
              /\ y < CanvasHeight * 1000
              /\ x + currentSize > 0
              /\ y + currentSize > 0
           THEN exportTile(P.tileShape, x, y, currentSize, filled)
           ELSE null
  IN TheOnly({
       [doc |-> [kind |-> "svg", name |-> "tiling_pattern.svg",
                 width |-> CanvasWidth, height |-> CanvasHeight,
                 strokeWidth |-> P.strokeWeight,
                 elements |-> SelectSeq(
                   [n \in 1..(numRows * numCols) |->
                      TheOnly({ tile(z, n - 1) : z \in {lcgAfterMany(z0, 4 * (n - 1))} })],
                   NotNull)],
        randomState |-> lcgAfterMany(z0, 4 * numRows * numCols)]
       : z0 \in {randomSeed(P.randomSeed)} })

tilingFrame == <<seed, generatedBoxesCache, lineSegmentsCache, sites, delaunay, voronoi,
                 uMVMatrix, uPMatrix, sketchFrame>>

InitTiling ==
  /\ page = "tiling"
  /\ NoMaze
  /\ NoSolid
  /\ p5Ready = FALSE
  /\ angleMode = "radians"
  /\ params \in TilingParams
  /\ rendered = << >>
  /\ emitted = NoDoc
  /\ logged = NoLog

\* setup(p5, canvasParentRef), lines 61-65, and the one frame p5 draws after
\* it (noLoop).
tilingSetup ==
  /\ page = "tiling"
  /\ ~p5Ready
  /\ p5Ready' = TRUE
  /\ \E d \in {tilingDraw(params)} :
       /\ rendered' = [strokeWeight |-> d.strokeWeight, tiles |-> d.tiles]
       /\ randomState' = d.randomState
  /\ emitted' = NoDoc
  /\ logged' = NoLog
  /\ UNCHANGED <<page, angleMode, params, tilingFrame>>

\* A control changes one parameter; the effect of lines 184-188 redraws when
\* the sketch exists.
tilingSetParam ==
  /\ page = "tiling"
  /\ \E P \in TilingParams :
       /\ Cardinality({f \in DOMAIN P : P[f] # params[f]}) = 1
       /\ params' = P
       /\ IF p5Ready
          THEN \E d \in {tilingDraw(P)} :
                 /\ rendered' = [strokeWeight |-> d.strokeWeight, tiles |-> d.tiles]
                 /\ randomState' = d.randomState
          ELSE UNCHANGED <<rendered, randomState>>
  /\ emitted' = NoDoc
  /\ logged' = NoLog
  /\ UNCHANGED <<page, p5Ready, angleMode, tilingFrame>>

\* exportSVG, lines 190-285.
tilingExportSVG ==
  /\ page = "tiling"
  /\ IF ~p5Ready
     THEN /\ emitted' = NoDoc
          /\ UNCHANGED randomState
     ELSE \E e \in {tilingExport(params, randomState)} :
            /\ emitted' = e.doc
            /\ randomState' = e.randomState
  /\ logged' = NoLog
  /\ UNCHANGED <<page, p5Ready, angleMode, params, rendered, tilingFrame>>

NextTiling ==
  \/ tilingSetup
  \/ tilingSetParam
  \/ tilingExportSVG

SpecTiling == InitTiling /\ [][NextTiling]_vars

\* ------------------------------------------------------------------------
\* The open-wall graph of a grid (used to state the properties)
\* ------------------------------------------------------------------------
Adjacent(a, b) ==
  \/ a[1] = b[1] /\ (a[2] - b[2] = 1 \/ b[2] - a[2] = 1)
  \/ a[2] = b[2] /\ (a[1] - b[1] = 1 \/ b[1] - a[1] = 1)

\* The wall flag of cell a on its side towards the adjacent cell b.
WallTowards(g, a, b) ==
  IF b[1] = a[1] + 1 THEN g[a].walls.right
  ELSE IF b[1] = a[1] - 1 THEN g[a].walls.left
  ELSE IF b[2] = a[2] + 1 THEN g[a].walls.bottom
  ELSE g[a].walls.top

\* The wall between two adjacent cells is removed (on both sides).
OpenBetween(g, a, b) ==
  Adjacent(a, b) /\ ~WallTowards(g, a, b) /\ ~WallTowards(g, b, a)

OpenPairs(g) ==
  {w \in InternalWalls(GridLength(g)) : OpenBetween(g, w[1], w[2])}

\* Flood fill: the cells reachable from the set seen through open walls.
RECURSIVE FloodFill(_, _)
FloodFill(g, seen) ==
  LET more == {c \in DOMAIN g : \E a \in seen : OpenBetween(g, a, c)} \ seen
  IN IF more = {} THEN seen ELSE FloodFill(g, seen \cup more)

RECURSIVE SumOver(_, _, _, _, _)
RECURSIVE PathCount(_, _, _, _)
\* The number of simple open-wall paths from a to b that avoid the cells used.
PathCount(g, a, b, used) ==
  IF a = b THEN 1
  ELSE SumOver(g, {n \in DOMAIN g : OpenBetween(g, a, n) /\ n \notin used}, b, used, 0)

SumOver(g, nexts, b, used, acc) ==
  IF nexts = {} THEN acc
  ELSE LET n == CHOOSE m \in nexts : TRUE
       IN SumOver(g, nexts \ {n}, b, used, acc + PathCount(g, n, b, used \cup {n}))

\* The least number of cells on an open-wall path from the frontier to b,
\* counting the cells already passed; 0 when b is not reachable.
RECURSIVE LeastCells(_, _, _, _, _)
LeastCells(g, frontier, seen, b, cells) ==
  IF b \in frontier THEN cells
  ELSE LET more == {c \in DOMAIN g : \E a \in frontier : OpenBetween(g, a, c)} \ seen
       IN IF more = {} THEN 0 ELSE LeastCells(g, more, seen \cup more, b, cells + 1)

\* path is an open-wall path of g from cell a to cell b.
IsOpenPath(g, path, a, b) ==
  /\ Len(path) >= 1
  /\ path[1] = [x |-> a[1], y |-> a[2]]
  /\ path[Len(path)] = [x |-> b[1], y |-> b[2]]
  /\ \A i \in 1..(Len(path) - 1) :
       /\ <<path[i].x, path[i].y>> \in DOMAIN g
       /\ <<path[i + 1].x, path[i + 1].y>> \in DOMAIN g
       /\ OpenBetween(g, <<path[i].x, path[i].y>>, <<path[i + 1].x, path[i + 1].y>>)

\* ------------------------------------------------------------------------
\* Properties
\* ------------------------------------------------------------------------
\* C1: when recursiveBacktracker(N) returns, N >= 2, the open-wall graph is a
\* spanning tree: exactly N*N-1 open wall-pairs, every cell reachable from
\* every cell, exactly one open-wall path between any two cells.
C1_SpanningTree ==
  (pc = "carved" /\ GridLength(newGrid) >= 2) =>
    LET n == GridLength(newGrid)
    IN /\ Cardinality(OpenPairs(newGrid)) = n * n - 1
       /\ \A c \in DOMAIN newGrid : FloodFill(newGrid, {c}) = DOMAIN newGrid
       /\ \A a, b \in DOMAIN newGrid : PathCount(newGrid, a, b, {a}) = 1

C1_Witness ==
  /\ pc = "carved"
  /\ GridLength(newGrid) >= 3
  /\ Cardinality(OpenPairs(newGrid)) >= 8

\* C2: for every carved maze of size N >= 2 the stored solution path is
\* non-empty, runs from (0,0) to (N-1,N-1), and every two consecutive cells are
\* grid-adjacent with no wall between them.
C2_SolutionPathValid ==
  (pc = "idle" /\ GridLength(grid) >= 2) =>
    LET n == GridLength(grid)
    IN /\ solveStart = <<0, 0>>
       /\ solveEnd = <<n - 1, n - 1>>
       /\ IsOpenPath(grid, solutionPath, <<0, 0>>, <<n - 1, n - 1>>)

C2_Witness ==
  /\ pc = "idle"
  /\ GridLength(grid) >= 3
  /\ Len(solutionPath) >= 7

\* C3: the carving loop terminates for every N >= 1, and when it has
\* terminated the stack is empty, the current cell has no unvisited neighbour
\* and every cell is visited.
C3_CarvingTerminates ==
  /\ [](pc = "carved" =>
          /\ stack = << >>
          /\ getUnvisitedNeighbors(currentCell, newGrid, GridLength(newGrid)) = << >>
          /\ \A c \in DOMAIN newGrid : newGrid[c].visited)
  /\ (pc = "carving") ~> (pc = "carved")

C3_Witness ==
  /\ pc = "carved"
  /\ GridLength(newGrid) = 1
  /\ stack = << >>
  /\ newGrid[<<0, 0>>].visited

\* C4: two runs of the generation routine with the same parameters produce
\* the same wall flags in every cell: a run that ends with the density of the
\* stored (previous) grid ends with that grid's walls.
C4_GenerationReproducible ==
  (pc = "carved" /\ GridLength(grid) = GridLength(newGrid)) =>
    \A c \in DOMAIN newGrid : newGrid[c].walls = grid[c].walls

\* C5: on a grid with symmetric wall flags where the end cell is reachable
\* from the start cell, findSolutionPath returns an open-wall path from start
\* to end with the least possible number of cells.
C5_ShortestPath ==
  (/\ pc = "solved"
   /\ solveStart \in DOMAIN newGrid
   /\ solveEnd \in FloodFill(newGrid, {solveStart})) =>
    /\ IsOpenPath(newGrid, solutionPath, solveStart, solveEnd)
    /\ Len(solutionPath) = LeastCells(newGrid, {solveStart}, {solveStart}, solveEnd, 1)

\* A grid with a cycle: two or more open-wall paths join start and end.
C5_Witness ==
  /\ pc = "solved"
  /\ Len(solutionPath) >= 3
  /\ PathCount(newGrid, solveStart, solveEnd, {solveStart}) >= 3

\* C6: on the box and mountain pages the model-view and projection matrices
\* exportSVG projects the cached segments with are the ones draw rendered
\* them under in that frame, the scene rotation included.
C6_ExportUsesDrawTransform ==
  (page \in {"boxes", "mountain"} /\ emitted.kind = "svg") =>
    /\ emitted.mvMatrix = rendered.mvMatrix
    /\ emitted.projMatrix = rendered.projMatrix

\* C7: the paths exportSVG computes are the shapes draw put on the canvas for
\* the same parameters: same polylines in the same order, same culled samples,
\* same screen coordinates, same stroke weight.
C7_ExportMatchesDraw ==
  (page = "waves" /\ emitted.kind = "svg") =>
    /\ Len(emitted.paths) = Len(rendered)
    /\ \A i \in 1..Len(rendered) :
         /\ emitted.paths[i].points = rendered[i].points
         /\ emitted.paths[i].weight = rendered[i].weight

\* An export with a culled sample, a dropped one-point line and a kept line.
C7_Witness ==
  /\ page = "waves"
  /\ emitted.kind = "svg"
  /\ params.viewingAngle = 1500
  /\ Len(emitted.paths) >= 2
  /\ Len(emitted.paths) < 26
  /\ \E i \in 1..Len(emitted.paths) : Len(emitted.paths[i].points) \in 2..3

\* C8: exportSVG of the Voronoi, box, mountain or wormhole page, called while
\* the page's cache is empty or holds no tessellation, logs an error, emits no
\* document and leaves the caches as they were.
C8_EmptyCacheExport ==
  [][(\/ (page = "voronoi" /\ (voronoi = null \/ Len(sites) = 0) /\ voronoiExportSVG)
      \/ (page = "boxes" /\ Len(generatedBoxesCache) = 0 /\ boxesExportSVG)
      \/ (page = "mountain" /\ Len(lineSegmentsCache) = 0 /\ mountainExportSVG)
      \/ (page = "wormhole" /\ Len(lineSegmentsCache) = 0 /\ wormholeExportSVG))
     => /\ logged' = "error"
        /\ emitted' = NoDoc
        /\ UNCHANGED <<generatedBoxesCache, lineSegmentsCache, sites, delaunay,
                       voronoi>>]_vars

\* An export refused after a pass that left sites but no tessellation.
C8_Witness ==
  /\ page = "voronoi"
  /\ p5Ready
  /\ Len(sites) \in 1..2
  /\ voronoi = null
  /\ logged = "error"
  /\ emitted = NoDoc

\* C9: the maze page's export emits no document while no maze has been
\* generated (the grid is empty).
C9_ExportNeedsMaze ==
  (page = "maze" /\ GridLength(grid) = 0) => emitted = NoDoc

\* C10: with fewer than three sites the triangulation and the tessellation
\* are null and drawVoronoiCells draws nothing and does not fail; a
\* tessellation that is not null was built from the current sites.
C10_FewSitesNoTessellation ==
  page = "voronoi" =>
    /\ Len(sites) < 3 =>
         /\ delaunay = null
         /\ voronoi = null
         /\ drawVoronoiCells(Refs) = [failed |-> FALSE, polygons |-> << >>]
         /\ p5Ready => rendered = [failed |-> FALSE, polygons |-> << >>]
    /\ voronoi # null =>
         /\ voronoi.delaunay = delaunay
         /\ delaunay.points = sites

\* A regeneration that the minimum distance left with one or two sites.
C10_Witness ==
  /\ page = "voronoi"
  /\ p5Ready
  /\ Len(sites) \in 1..2
  /\ params.numPoints > Len(sites)
  /\ rendered.polygons = << >>
  /\ ~rendered.failed

\* C11: when minDistance > 0, any two points the minimum-distance filter keeps
\* are farther apart than minDistance (a point at exactly minDistance from a
\* kept point is dropped).
C11_KeptPointsExceedMinDistance ==
  (rendered # null /\ params.minDistance > 0) =>
    \A i \in 1..Len(rendered.points), j \in 1..Len(rendered.points) :
      i # j =>
        (rendered.points[i][1] - rendered.points[j][1])
            * (rendered.points[i][1] - rendered.points[j][1])
          + (rendered.points[i][2] - rendered.points[j][2])
              * (rendered.points[i][2] - rendered.points[j][2])
          > params.minDistance * params.minDistance

\* The states an earlier pass can leave the generator in: some seed, and
\* the draws of zero to two boxes or of three points.
EarlierStates == {lcgAfter(randomSeed(s), k) : s \in Seeds, k \in {0, 6, 9, 18}}

\* C12: a generation pass seeds the generator before its first random
\* number, so the boxes and the sites in the caches are those of (params,
\* seed) whatever state earlier passes left the generator in.
C12_PassIgnoresEarlierDraws ==
  /\ (page = "boxes" /\ p5Ready) =>
       \A z \in EarlierStates \cup {randomState} :
         generateBoxes(angleMode, params, seed, z).boxes = generatedBoxesCache
  /\ (page = "voronoi" /\ p5Ready) =>
       \A z \in EarlierStates \cup {randomState} :
         generateVoronoiDiagram(Refs, params, seed, z).sites = sites

\* An export whose redraw generated the boxes again, the generator having
\* been left advanced by the pass before it.
C12_Witness ==
  /\ page = "boxes"
  /\ emitted.kind = "svg"
  /\ Len(generatedBoxesCache) = 2
  /\ randomState = lcgAfter(randomSeed(seed), 18)
  /\ randomState # randomSeed(seed)

\* Whether the projected point q lies within the bounds of page pg around
\* the 800 x 600 canvas.
WithinBounds(pg, q) ==
  /\ q.x >= -xBufferOf(pg) /\ q.x <= 8000 + xBufferOf(pg)
  /\ q.y >= -yBufferOf(pg) /\ q.y <= 6000 + yBufferOf(pg)

\* Whether exportSVG is to write the segment seg: both ends project, both
\* depths are below 1 and one end is within the bounds.
IsWritten(pg, mvMatrix, projMatrix, seg) ==
  LET q1 == project3DTo2D(mvMatrix, projMatrix, seg.v1)
      q2 == project3DTo2D(mvMatrix, projMatrix, seg.v2)
  IN /\ q1 # null
     /\ q2 # null
     /\ q1.z < 1000
     /\ q2.z < 1000
     /\ (WithinBounds(pg, q1) \/ WithinBounds(pg, q2))

\* Exactly the segments of segs that satisfy Keep(_), in their order.
KeptSegments(segs, Keep(_)) ==
  LET kept == {n \in 1..Len(segs) : Keep(segs[n])}
  IN [i \in 1..Cardinality(kept) |->
        segs[CHOOSE n \in kept : Cardinality({m \in kept : m <= n}) = i]]

\* C13: the 3D exports write a cached segment if and only if both ends
\* project, both depths are below 1 and one end is within the page's bounds,
\* and a written line carries the two projected ends of its segment as they
\* are.
C13_SegmentWrittenWhole ==
  emitted.kind = "svg" =>
    LET Keep(seg) == IsWritten(page, uMVMatrix, uPMatrix, seg)
        kept == KeptSegments(CachedSegments, Keep)
    IN /\ Len(emitted.lines) = Len(kept)
       /\ \A i \in 1..Len(kept) :
            LET q1 == project3DTo2D(uMVMatrix, uPMatrix, kept[i].v1)
                q2 == project3DTo2D(uMVMatrix, uPMatrix, kept[i].v2)
            IN emitted.lines[i] = [x1 |-> q1.x, y1 |-> q1.y, x2 |-> q2.x, y2 |-> q2.y]

\* An export that wrote a segment with one end outside the bounds and dropped
\* one with an end behind the camera.
C13_Witness ==
  /\ emitted.kind = "svg"
  /\ Len(CachedSegments) = 2
  /\ Len(emitted.lines) = 1
  /\ emitted.lines[1].x2 > 12000
  /\ \E n \in 1..2 : CachedSegments[n].v1.z = 6000

\* The homogeneous w of a point: clipPos[3] of lines 553-564.
HomogeneousW(mvMatrix, projMatrix, point3D) ==
  LET pointVec4 == <<point3D.x, point3D.y, point3D.z, 10>>
      eyePos == [i \in 1..4 |->
                   (mvMatrix[i] * pointVec4[1] + mvMatrix[4 + i] * pointVec4[2]
                    + mvMatrix[8 + i] * pointVec4[3] + mvMatrix[12 + i] * pointVec4[4])
                   \div 1000]
  IN (projMatrix[4] * eyePos[1] + projMatrix[8] * eyePos[2]
      + projMatrix[12] * eyePos[3] + projMatrix[16] * eyePos[4]) \div 1000

\* C14: project3DTo2D returns null when a matrix of the renderer is missing
\* or the point's w is 0, and exportSVG skips the segments with a null end
\* and goes on with the others: the document is that of the cache without
\* those segments.
C14_NullProjectionSkipped ==
  emitted.kind = "svg" =>
    LET segs == CachedSegments
        Null(point3D) == project3DTo2D(uMVMatrix, uPMatrix, point3D) = null
        Projects(seg) == ~Null(seg.v1) /\ ~Null(seg.v2)
        ZeroW(point3D) == /\ uMVMatrix # null
                          /\ uPMatrix # null
                          /\ HomogeneousW(uMVMatrix, uPMatrix, point3D) = 0
    IN /\ \A n \in 1..Len(segs) :
            /\ (uMVMatrix = null \/ uPMatrix = null \/ ZeroW(segs[n].v1)) => Null(segs[n].v1)
            /\ (uMVMatrix = null \/ uPMatrix = null \/ ZeroW(segs[n].v2)) => Null(segs[n].v2)
       /\ emitted.lines = ExportLines(KeptSegments(segs, Projects), uMVMatrix, uPMatrix,
                                      xBufferOf(page), yBufferOf(page))
       /\ \A n \in 1..Len(segs) :
            ~Projects(segs[n]) =>
              emitted.lines = ExportLines(SubSeq(segs, 1, n - 1) \o SubSeq(segs, n + 1, Len(segs)),
                                         uMVMatrix, uPMatrix, xBufferOf(page), yBufferOf(page))

\* An export that skipped a segment with an end of w = 0 and wrote the
\* segment after it.
C14_Witness ==
  /\ emitted.kind = "svg"
  /\ uMVMatrix # null
  /\ uPMatrix # null
  /\ Len(CachedSegments) = 2
  /\ HomogeneousW(uMVMatrix, uPMatrix, CachedSegments[1].v2) = 0
  /\ Len(emitted.lines) = 1
  /\ logged = "log"

\* C15: the base waveform at wave input 0 is 0 for the sine, triangle and
\* sawtooth wave types, in calculateWaveValue and in calculateWaveValueSVG.
\* At x = 0, z = 0, time = 0 and wavePhase = 0 the wave input is 0 and the
\* cross-wave term sin(0) * 0.3 is 0, so the returned value is the base
\* waveform.
C15_BaseWaveformZeroAtZero ==
  (/\ page = "waves"
   /\ p5Ready
   /\ params.wavePhase = 0
   /\ params.waveType \in {"sine", "triangle", "sawtooth"})
  => /\ calculateWaveValue(params, angleMode, 0, 0, 0) = 0
     /\ calculateWaveValueSVG(params, 0, 0, 0) = 0

\* C16 as stated: the square waveform at wave input 0, where the sine is
\* exactly 0, is 1, in calculateWaveValue and in calculateWaveValueSVG.
C16_SquareOneAtZero ==
  (/\ page = "waves"
   /\ p5Ready
   /\ params.wavePhase = 0
   /\ params.waveType = "square")
  => /\ calculateWaveValue(params, angleMode, 0, 0, 0) = 1000
     /\ calculateWaveValueSVG(params, 0, 0, 0) = 1000

\* C16, amended: the square waveform at wave input 0 is -1, because the sine
\* is 0 there and 0 > 0 is false; it is 1 exactly where the sine is positive.
\* WaveInputs are wave inputs z * waveFrequency + wavePhase on the x = 0
\* column, with z in tenths of a pixel.
C16_SquareMinusOneAtZero ==
  (/\ page = "waves"
   /\ p5Ready
   /\ params.waveType = "square")
  => /\ MathSin(0) = 0
     /\ params.wavePhase = 0
          => /\ calculateWaveValue(params, angleMode, 0, 0, 0) = -1000
             /\ calculateWaveValueSVG(params, 0, 0, 0) = -1000
     /\ \A z \in {-2000, -1000, 0, 1000, 2000} :
          LET waveInput == (z * params.waveFrequency) \div 10 + params.wavePhase
          IN /\ calculateWaveValue(params, angleMode, 0, z, 0)
                  = IF p5sin(angleMode, waveInput) > 0 THEN 1000 ELSE -1000
             /\ calculateWaveValueSVG(params, 0, z, 0)
                  = IF MathSin(waveInput) > 0 THEN 1000 ELSE -1000

C16_Witness ==
  /\ page = "waves"
  /\ p5Ready
  /\ params.waveType = "square"
  /\ params.wavePhase = 0
  /\ calculateWaveValue(params, angleMode, 0, 0, 0) = -1000
  /\ calculateWaveValue(params, angleMode, 0, 1000, 0) = 1000

\* C17: a generated maze of density N is an N x N grid with exactly N*N - 1
\* open wall-pairs, and its solution path runs from (0,0) to (N-1,N-1), has at
\* least 2(N-1) and at most N*N cells and visits no cell twice (for N = 10:
\* 10 x 10, 99 open wall-pairs, between 18 and 100 cells).
C17_PathLengthBounds ==
  (pc = "idle" /\ GridLength(grid) >= 1) =>
    LET n == GridLength(grid)
    IN /\ n = density
       /\ DOMAIN grid = Coords(n)
       /\ Cardinality(OpenPairs(grid)) = n * n - 1
       /\ Len(solutionPath) >= 2 * (n - 1)
       /\ Len(solutionPath) <= n * n
       /\ Len(solutionPath) >= 1
       /\ solutionPath[1] = [x |-> 0, y |-> 0]
       /\ solutionPath[Len(solutionPath)] = [x |-> n - 1, y |-> n - 1]
       /\ \A i, j \in 1..Len(solutionPath) : solutionPath[i] = solutionPath[j] => i = j

\* A maze of the largest density whose solution path is longer than the
\* shortest lattice path between the corners.
C17_Witness ==
  /\ pc = "idle"
  /\ GridLength(grid) = MaxDensity
  /\ Cardinality(OpenPairs(grid)) = MaxDensity * MaxDensity - 1
  /\ Len(solutionPath) > 2 * (MaxDensity - 1) + 1

\* The wall flags of a grid that are set, as <<cell, side>> pairs.
SetFlags(g) ==
  {f \in (DOMAIN g) \X {"top", "right", "bottom", "left"} : g[f[1]].walls[f[2]]}

\* The side of cell a that faces the adjacent cell b.
SideTowards(a, b) ==
  IF b[1] = a[1] + 1 THEN "right"
  ELSE IF b[1] = a[1] - 1 THEN "left"
  ELSE IF b[2] = a[2] + 1 THEN "bottom"
  ELSE "top"

WallsSymmetric(g) ==
  \A w \in InternalWalls(GridLength(g)) :
    /\ w[2][1] = w[1][1] + 1 => g[w[1]].walls.right = g[w[2]].walls.left
    /\ w[2][2] = w[1][2] + 1 => g[w[1]].walls.bottom = g[w[2]].walls.top

\* C18: at every step of carving the wall flags are symmetric (A.right =
\* B.left for B right of A, A.bottom = B.top for B below A), and an iteration
\* that moves to a neighbour clears exactly the two facing flags of the
\* current cell and that neighbour, while one that backtracks clears none.
C18_SymmetricWallRemoval ==
  /\ [](pc \in {"carving", "carved"} => WallsSymmetric(newGrid))
  /\ [][pc = "carving" =>
          /\ SetFlags(newGrid') \subseteq SetFlags(newGrid)
          /\ IF Len(stack') > Len(stack)
             THEN /\ Adjacent(currentCell, currentCell')
                  /\ SetFlags(newGrid) \ SetFlags(newGrid')
                       = {<<currentCell, SideTowards(currentCell, currentCell')>>,
                          <<currentCell', SideTowards(currentCell', currentCell)>>}
             ELSE SetFlags(newGrid') = SetFlags(newGrid)]_vars

\* Carving under way, with a wall removed sideways and a wall removed
\* downwards or upwards.
C18_Witness ==
  /\ pc = "carving"
  /\ \E c \in DOMAIN newGrid : ~newGrid[c].walls.right
  /\ \E c \in DOMAIN newGrid : ~newGrid[c].walls.bottom
  /\ \E c \in DOMAIN newGrid : ~newGrid[c].visited

VisitedCells(g) == {c \in DOMAIN g : g[c].visited}

\* The stack followed by the current cell, as a path of points.
StackPath ==
  [i \in 1..(Len(stack) + 1) |->
     LET c == IF i <= Len(stack) THEN stack[i] ELSE currentCell
     IN [x |-> c[1], y |-> c[2]]]

\* C19: at every step of carving the open wall-pairs number the visited cells
\* minus one; the visited cells are exactly the cells joined to (0,0) by open
\* walls, with one open-wall path between any two of them; the stack followed
\* by the current cell is the open-wall path from (0,0) to the current cell;
\* and a wall is removed only between the current cell and an in-bounds
\* neighbour that was not visited before.
C19_CarvingInvariant ==
  /\ [](pc \in {"carving", "carved"} =>
          /\ Cardinality(OpenPairs(newGrid)) = Cardinality(VisitedCells(newGrid)) - 1
          /\ <<0, 0>> \in VisitedCells(newGrid)
          /\ FloodFill(newGrid, {<<0, 0>>}) = VisitedCells(newGrid)
          /\ \A a, b \in VisitedCells(newGrid) : PathCount(newGrid, a, b, {a}) = 1
          /\ IsOpenPath(newGrid, StackPath, <<0, 0>>, currentCell)
          /\ \A i, j \in 1..Len(StackPath) : StackPath[i] = StackPath[j] => i = j)
  /\ [][(pc = "carving" /\ SetFlags(newGrid') # SetFlags(newGrid)) =>
          /\ currentCell' \in Coords(GridLength(newGrid))
          /\ Adjacent(currentCell, currentCell')
          /\ ~newGrid[currentCell'].visited
          /\ newGrid'[currentCell'].visited
          /\ OpenPairs(newGrid') \ OpenPairs(newGrid)
               = {w \in InternalWalls(GridLength(newGrid)) :
                    {w[1], w[2]} = {currentCell, currentCell'}}]_vars

\* Carving after a backtrack: the stack is shorter than the visited cells are
\* many, and cells are still unvisited.
C19_Witness ==
  /\ pc = "carving"
  /\ Len(stack) >= 2
  /\ Cardinality(VisitedCells(newGrid)) >= Len(stack) + 3
  /\ Cardinality(VisitedCells(newGrid)) < Cardinality(DOMAIN newGrid)

\* C20: findSolutionPath returns the empty path exactly when the grid is
\* empty or the end cell cannot be reached from the start cell through open
\* walls; a path it returns is a whole open-wall path from start to end; and
\* with start = end it returns the path of that one cell.
C20_EmptyPathIffUnreachable ==
  pc = "solved" =>
    /\ solutionPath = << >>
         <=> \/ GridLength(newGrid) = 0
             \/ solveEnd \notin FloodFill(newGrid, {solveStart})
    /\ solutionPath # << >> => IsOpenPath(newGrid, solutionPath, solveStart, solveEnd)
    /\ (GridLength(newGrid) > 0 /\ solveStart = solveEnd)
         => solutionPath = << [x |-> solveStart[1], y |-> solveStart[2]] >>

\* A grid on which the search marked cells and linked parents without
\* reaching the end cell.
C20_Witness ==
  /\ pc = "solved"
  /\ GridLength(newGrid) = MinDensity
  /\ solutionPath = << >>
  /\ Cardinality({c \in DOMAIN newGrid : newGrid[c].parent # null}) >= 3

\* C21: findSolutionPath resets visitedForSolution and parent on every cell
\* before it searches, so the path it returns is the path it returns on the
\* same walls with no solve flag set and no parent link, whatever an earlier
\* solve left in the cells; a second call with the same start and end returns
\* the same path and leaves the same cells.
C21_SolveIgnoresEarlierSolve ==
  /\ [](pc = "solved" =>
          solutionPath
            = findSolutionPath(GridFromOpen(GridLength(newGrid), OpenPairs(newGrid)),
                               solveStart, solveEnd).path)
  /\ [][(pc = "solved" /\ solveStart' = solveStart /\ solveEnd' = solveEnd)
          => (solutionPath' = solutionPath /\ newGrid' = newGrid)]_vars

\* A solve that received cells marked and linked by an earlier solve with
\* another start, and found a path.
C21_Witness ==
  /\ pc = "solved"
  /\ GridLength(newGrid) = MinDensity
  /\ DOMAIN grid = DOMAIN newGrid
  /\ Len(solutionPath) >= 3
  /\ grid[solveStart].parent # null
  /\ \E c \in DOMAIN grid : grid[c].visitedForSolution /\ grid[c].parent # newGrid[c].parent

\* Points i and j of the list are nearer than d to each other.
Nearer(points, i, j, d) ==
  (points[i][1] - points[j][1]) * (points[i][1] - points[j][1])
    + (points[i][2] - points[j][2]) * (points[i][2] - points[j][2]) < d * d

\* The points of the list at the indices of K, in the order of the list.
PointsAt(points, K) ==
  [k \in 1..Cardinality(K) |->
     points[CHOOSE i \in K : Cardinality({j \in K : j <= i}) = k]]

\* C22: the minimum-distance filter is greedy in generation order. Its output
\* is the generated points at a set K of indices, in their original order,
\* where index 1 is in K and an index is outside K exactly when its point is
\* nearer than minDistance to the point of an earlier index of K; with
\* minDistance 0 the generated list is returned as it is.
C22_GreedyInGenerationOrder ==
  rendered # null =>
    /\ params.minDistance > 0 =>
         \E K \in SUBSET (1..Len(sites)) :
           /\ 1 \in K
           /\ \A i \in 1..Len(sites) :
                i \notin K <=> \E j \in K : j < i /\ Nearer(sites, i, j, params.minDistance)
           /\ rendered.points = PointsAt(sites, K)
    /\ params.minDistance = 0 =>
         /\ rendered.points = sites
         /\ Len(rendered.points) = Len(sites)

\* The second point is dropped for the first; the third is near the dropped
\* point only, and is kept.
C22_Witness ==
  /\ rendered # null
  /\ params.minDistance = 4
  /\ sites = << <<0, 0>>, <<3, 0>>, <<6, 0>> >>
  /\ rendered.points = << <<0, 0>>, <<6, 0>> >>

\* C23: every site generatePoints returns lies in the rectangle inset by the
\* margin, [margin, 800 - margin] x [margin, 600 - margin], for the random,
\* the jittered-grid and the clustered policy; in the jittered-grid policy
\* cols * rows >= numPoints, point i lies in the grid cell of column i mod
\* cols and row floor(i / cols), that row is below rows, and no two points
\* share a cell. Lengths in tenths of a pixel.
C23_SitesInsideMargin ==
  (page = "voronoi" /\ sites # << >>) =>
    LET margin == params.boundaryMargin * 10
        width == 8000 - 2 * margin
        height == 6000 - 2 * margin
        n == params.numPoints
        points == UnfilteredPoints(params, randomSeed(seed))
        cols == CHOOSE c \in 1..(n + 1) :
                  c * c * height >= n * width /\ (c - 1) * (c - 1) * height < n * width
        rows == (n + cols - 1) \div cols
        cellOf(i) == <<i % cols, i \div cols>>
    IN /\ \A s \in 1..Len(sites) :
            /\ margin <= sites[s][1] /\ sites[s][1] <= 8000 - margin
            /\ margin <= sites[s][2] /\ sites[s][2] <= 6000 - margin
       /\ \A s \in 1..Len(sites) : \E k \in 1..n : sites[s] = points[k]
       /\ params.distributionType = "uniform" =>
            /\ cols * rows >= n
            /\ Len(points) = n
            /\ \A k \in 1..n :
                 LET col == cellOf(k - 1)[1]
                     row == cellOf(k - 1)[2]
                 IN /\ row < rows
                    /\ margin + (col * width) \div cols <= points[k][1]
                    /\ points[k][1] <= margin + ((col + 1) * width) \div cols
                    /\ margin + (row * height) \div rows <= points[k][2]
                    /\ points[k][2] <= margin + ((row + 1) * height) \div rows
            /\ \A k, l \in 1..n : cellOf(k - 1) = cellOf(l - 1) => k = l

\* A jittered grid of the most points, on more than one row.
C23_Witness ==
  /\ page = "voronoi"
  /\ params.distributionType = "uniform"
  /\ params.numPoints = MaxPoints
  /\ Len(sites) = MaxPoints
  /\ \E s \in 1..Len(sites) : sites[s][2] > 3000
  /\ \E s \in 1..Len(sites) : sites[s][2] < 3000

\* The segment drawMaze draws for the wall of cell c on the given side, on a
\* canvas of width w and height h divided into n x n cells.
SideSegment(c, side, n, w, h) ==
  LET x0 == (c[1] * w) \div n
      x1 == ((c[1] + 1) * w) \div n
      y0 == (c[2] * h) \div n
      y1 == ((c[2] + 1) * h) \div n
  IN CASE side = "top" -> <<x0, y0, x1, y0>>
       [] side = "right" -> <<x1, y0, x1, y1>>
       [] side = "bottom" -> <<x1, y1, x0, y1>>
       [] side = "left" -> <<x0, y1, x0, y0>>

\* C24: drawMaze draws, for every cell, one segment for each wall flag that is
\* set and none for a cleared flag, so that the edge shared by two adjacent
\* cells carries a segment exactly when the wall between them stands; then
\* the four segments of the outer boundary; and the solution polyline, with
\* one vertex at the centre of each path cell in path order, exactly when
\* showSolution is true and the path is not empty.
C24_DrawnWallsMatchFlags ==
  (pc = "idle" /\ GridLength(grid) > 0) =>
    LET n == GridLength(grid)
        w == mazeDisplayWidth(aspectRatio)
        h == mazeDisplayHeight(aspectRatio)
        d == svgChildren[2].d
        walls == SubSeq(d, 1, Len(d) - 4)
        Times(seg) == Cardinality({k \in 1..Len(walls) : walls[k] = seg})
    IN /\ Len(svgChildren) >= 4
       /\ Len(d) = Cardinality(SetFlags(grid)) + 4
       /\ \A c \in DOMAIN grid, side \in {"top", "right", "bottom", "left"} :
            Times(SideSegment(c, side, n, w, h)) = IF grid[c].walls[side] THEN 1 ELSE 0
       /\ \A p \in InternalWalls(n) :
            (\E k \in 1..Len(walls) :
               walls[k] \in {SideSegment(p[1], SideTowards(p[1], p[2]), n, w, h),
                             SideSegment(p[2], SideTowards(p[2], p[1]), n, w, h)})
              <=> ~OpenBetween(grid, p[1], p[2])
       /\ SubSeq(d, Len(d) - 3, Len(d))
            = << <<0, 0, w, 0>>, <<w, 0, w, h>>, <<w, h, 0, h>>, <<0, h, 0, 0>> >>
       /\ Len(svgChildren) = IF showSolution /\ Len(solutionPath) > 0 THEN 5 ELSE 4
       /\ Len(svgChildren) = 5 =>
            /\ Len(svgChildren[5].d) = Len(solutionPath)
            /\ \A i \in 1..Len(solutionPath) :
                 svgChildren[5].d[i]
                   = <<((2 * solutionPath[i].x + 1) * w) \div (2 * n),
                       ((2 * solutionPath[i].y + 1) * h) \div (2 * n)>>

\* A drawn maze of the largest density on a canvas that is not square, with
\* the solution hidden.
C24_Witness ==
  /\ pc = "idle"
  /\ GridLength(grid) = MaxDensity
  /\ aspectRatio = "16:9"
  /\ ~showSolution
  /\ Len(solutionPath) > 0
  /\ Len(svgChildren) = 4
  /\ Len(svgChildren[2].d) = Cardinality(SetFlags(grid)) + 4

\* C25: after any sequence of density changes, aspect-ratio changes, Generate
\* clicks and showSolution toggles, the stored solution path is the path of
\* the stored grid: an open-wall path from (0,0) to the bottom-right cell of
\* that grid, the one findSolutionPath returns on it, and the one drawn when
\* the solution is shown.
C25_StoredPathOfStoredGrid ==
  GridLength(grid) > 0 =>
    LET n == GridLength(grid)
    IN /\ IsOpenPath(grid, solutionPath, <<0, 0>>, <<n - 1, n - 1>>)
       /\ solutionPath = findSolutionPath(grid, <<0, 0>>, <<n - 1, n - 1>>).path
       /\ Len(svgChildren) = 5 =>
            svgChildren[5].d
              = SolutionVertices(solutionPath, n, svgChildren[1].width, svgChildren[1].height)

\* A maze regenerated at another density after a toggle and an aspect-ratio
\* change, while the grid of the generation before is still the stored one.
C25_Witness ==
  /\ pc = "carved"
  /\ GridLength(grid) = MaxDensity
  /\ GridLength(newGrid) = MaxDensity - 1
  /\ ~showSolution
  /\ aspectRatio = "9:16"
  /\ Len(solutionPath) >= 2 * MaxDensity - 1

\* The squared length of a segment between two points of space.
SquaredLength(l) ==
  (l.v1.x - l.v2.x) * (l.v1.x - l.v2.x) + (l.v1.y - l.v2.y) * (l.v1.y - l.v2.y)
    + (l.v1.z - l.v2.z) * (l.v1.z - l.v2.z)

\* The segment is as long as the side, to within the rounding of the corners
\* (lengths in tenths of a pixel).
LongAs(l, side) ==
  /\ (side - 4) * (side - 4) <= SquaredLength(l)
  /\ SquaredLength(l) <= (side + 4) * (side + 4)

\* C26: generateBoxes returns numBoxes boxes, each with 12 segments, 12 *
\* numBoxes in all; the segments of a box are the 12 edges of its cuboid: they
\* meet in 8 corners, no edge occurs twice in either direction, every corner
\* ends exactly 3 segments, and every segment runs along one axis of the box:
\* it is as long as the width, the height or the depth, four segments each.
C26_TwelveCuboidEdges ==
  (page = "boxes" /\ generatedBoxesCache # << >>) =>
    /\ Len(generatedBoxesCache) = params.numBoxes
    /\ Len(BoxSegments(generatedBoxesCache)) = 12 * params.numBoxes
    /\ \A b \in 1..Len(generatedBoxesCache) :
         LET box == generatedBoxesCache[b]
             lines == box.lines
             corners == {lines[n].v1 : n \in 1..Len(lines)}
                          \cup {lines[n].v2 : n \in 1..Len(lines)}
             Along(side) == {n \in 1..Len(lines) : LongAs(lines[n], side)}
         IN /\ Len(lines) = 12
            /\ Cardinality(corners) = 8
            /\ \A n, k \in 1..12 :
                 n # k => {lines[n].v1, lines[n].v2} # {lines[k].v1, lines[k].v2}
            /\ \A n \in 1..12 : lines[n].v1 # lines[n].v2
            /\ \A c \in corners :
                 Cardinality({n \in 1..12 : c \in {lines[n].v1, lines[n].v2}}) = 3
            /\ Along(box.width) \cup Along(box.height) \cup Along(box.depth) = 1..12
            /\ Cardinality(Along(box.width)) >= 4
            /\ Cardinality(Along(box.height)) >= 4
            /\ Cardinality(Along(box.depth)) >= 4

\* Two rotated boxes in the cache.
C26_Witness ==
  /\ page = "boxes"
  /\ Len(generatedBoxesCache) = MaxBoxes
  /\ Len(BoxSegments(generatedBoxesCache)) = 12 * MaxBoxes
  /\ \A b \in 1..Len(generatedBoxesCache) :
       generatedBoxesCache[b].rotation.y # 0 /\ generatedBoxesCache[b].rotation.z # 0

\* The cached segments whose two ends have the same z (the rings), and the
\* others (the meridians).
RingEdges(segs) == {n \in 1..Len(segs) : segs[n].v1.z = segs[n].v2.z}
MeridianEdges(segs) == {n \in 1..Len(segs) : segs[n].v1.z # segs[n].v2.z}

\* The points joined to the points of seen by the segments of the set E.
RECURSIVE JoinedBy(_, _, _)
JoinedBy(segs, E, seen) ==
  LET more == {segs[n].v1 : n \in {k \in E : segs[k].v2 \in seen}}
                \cup {segs[n].v2 : n \in {k \in E : segs[k].v1 \in seen}}
  IN IF more \subseteq seen THEN seen ELSE JoinedBy(segs, E, seen \cup more)

\* C27: generateHyperboloidLines builds gridDensityV + 1 rings of gridDensityU
\* points and, for gridDensityU >= 3, gridDensityU * (2 * gridDensityV + 1)
\* distinct segments: on every ring, the last one included, gridDensityU
\* segments that form one closed cycle through the ring's points; and
\* gridDensityU * gridDensityV segments between a ring and the next ring, one
\* up from every point but those of the last ring, one down from every point
\* but those of the first, none from the last ring back to the first.
C27_HyperboloidWireframe ==
  (page = "wormhole" /\ lineSegmentsCache # << >> /\ params.gridDensityU >= 3) =>
    LET segs == lineSegmentsCache
        U == params.gridDensityU
        V == params.gridDensityV
        points == {segs[n].v1 : n \in 1..Len(segs)} \cup {segs[n].v2 : n \in 1..Len(segs)}
        levels == {p.z : p \in points}
        NextLevel(z) == {y \in levels : y > z /\ \A x \in levels : x > z => x >= y}
    IN /\ Len(segs) = U * (2 * V + 1)
       /\ \A n, k \in 1..Len(segs) :
            n # k => {segs[n].v1, segs[n].v2} # {segs[k].v1, segs[k].v2}
       /\ Cardinality(points) = (V + 1) * U
       /\ Cardinality(levels) = V + 1
       /\ \A z \in levels :
            LET ring == {p \in points : p.z = z}
                E == {n \in RingEdges(segs) : segs[n].v1.z = z}
            IN /\ Cardinality(ring) = U
               /\ Cardinality(E) = U
               /\ \A p \in ring :
                    /\ Cardinality({n \in E : p \in {segs[n].v1, segs[n].v2}}) = 2
                    /\ JoinedBy(segs, E, {p}) = ring
       /\ Cardinality(MeridianEdges(segs)) = U * V
       /\ \A n \in MeridianEdges(segs) : segs[n].v2.z \in NextLevel(segs[n].v1.z)
       /\ \A p \in points :
            /\ Cardinality({n \in MeridianEdges(segs) : segs[n].v1 = p})
                 = IF NextLevel(p.z) = {} THEN 0 ELSE 1
            /\ Cardinality({n \in MeridianEdges(segs) : segs[n].v2 = p})
                 = IF \E y \in levels : y < p.z THEN 1 ELSE 0

\* The wireframe of the largest grid.
C27_Witness ==
  /\ page = "wormhole"
  /\ params.gridDensityV = MaxGridDensity
  /\ Len(lineSegmentsCache) = params.gridDensityU * (2 * MaxGridDensity + 1)
  /\ Cardinality(RingEdges(lineSegmentsCache)) = params.gridDensityU * (MaxGridDensity + 1)

\* C28: generateMountainMeshLines builds (gridResolutionZ + 1) rows of
\* (gridResolutionX + 1) points and pushes one segment from every point to
\* its right neighbour and one to the neighbour below it, when there is one:
\* gridResolutionX * (gridResolutionZ + 1) + gridResolutionZ *
\* (gridResolutionX + 1) segments, none twice, none from the last point of a
\* row or column back to the first.
C28_MountainMesh ==
  (page = "mountain" /\ lineSegmentsCache # << >>) =>
    LET segs == lineSegmentsCache
        X == params.gridResolutionX
        Z == params.gridResolutionZ
        points == {segs[n].v1 : n \in 1..Len(segs)} \cup {segs[n].v2 : n \in 1..Len(segs)}
        xs == {p.x : p \in points}
        zs == {p.z : p \in points}
        After(S, a) == {b \in S : b > a /\ \A c \in S : c > a => c >= b}
        Right(n) == segs[n].v1.z = segs[n].v2.z /\ segs[n].v2.x \in After(xs, segs[n].v1.x)
        Below(n) == segs[n].v1.x = segs[n].v2.x /\ segs[n].v2.z \in After(zs, segs[n].v1.z)
    IN /\ Len(segs) = X * (Z + 1) + Z * (X + 1)
       /\ \A n, k \in 1..Len(segs) :
            n # k => {segs[n].v1, segs[n].v2} # {segs[k].v1, segs[k].v2}
       /\ Cardinality(xs) = X + 1
       /\ Cardinality(zs) = Z + 1
       /\ Cardinality(points) = (X + 1) * (Z + 1)
       /\ \A n \in 1..Len(segs) : Right(n) \/ Below(n)
       /\ \A p \in points :
            /\ Cardinality({n \in 1..Len(segs) : segs[n].v1 = p /\ Right(n)})
                 = IF After(xs, p.x) = {} THEN 0 ELSE 1
            /\ Cardinality({n \in 1..Len(segs) : segs[n].v1 = p /\ Below(n)})
                 = IF After(zs, p.z) = {} THEN 0 ELSE 1

\* The mesh of the largest grid.
C28_Witness ==
  /\ page = "mountain"
  /\ params.gridResolutionZ = MaxMeshResolution
  /\ Len(lineSegmentsCache)
       = params.gridResolutionX * (MaxMeshResolution + 1)
         + MaxMeshResolution * (params.gridResolutionX + 1)

\* C29: findSolutionPath writes only visitedForSolution and parent: the wall
\* flags, the carving flag visited and the coordinates of every cell are after
\* a solve what they were before it, whether or not a path was found.
C29_SolveLeavesCellsAlone ==
  [][(pc = "unsolved" /\ pc' = "solved") =>
       /\ DOMAIN newGrid' = DOMAIN newGrid
       /\ \A c \in DOMAIN newGrid :
            /\ newGrid'[c].walls = newGrid[c].walls
            /\ newGrid'[c].visited = newGrid[c].visited
            /\ newGrid'[c].x = newGrid[c].x
            /\ newGrid'[c].y = newGrid[c].y]_vars

\* A solve that found no path after it had marked and linked another cell.
C29_Witness ==
  /\ pc = "solved"
  /\ GridLength(newGrid) = MinDensity
  /\ solutionPath = << >>
  /\ \E c \in DOMAIN newGrid :
       /\ newGrid[c].parent # null
       /\ newGrid[c].visitedForSolution
       /\ newGrid[c].visited
       /\ \E side \in {"top", "right", "bottom", "left"} : ~newGrid[c].walls[side]

\* The element that shows what one p5 call of the tiling page drew, its
\* numbers written with toFixed(2).
AsWritten(t) ==
  LET fillAttr == IF t.fill THEN "black" ELSE "none"
  IN CASE t.call = "square" ->
            [tag |-> "rect", x |-> toFixed2(t.args[1]), y |-> toFixed2(t.args[2]),
             width |-> toFixed2(t.args[3]), height |-> toFixed2(t.args[3]),
             fill |-> fillAttr]
       [] t.call \in {"triangle", "quad"} ->
            [tag |-> "polygon",
             points |-> [k \in 1..Len(t.args) |-> toFixed2(t.args[k])],
             fill |-> fillAttr]
       [] t.call = "shape" ->
            [tag |-> "polygon",
             points |-> [k \in 1..(2 * Len(t.vertices)) |->
                           toFixed2(t.translate[2 - (k % 2)]
                                    + t.vertices[(k + 1) \div 2][2 - (k % 2)])],
             fill |-> fillAttr]
       [] t.call = "circle" ->
            [tag |-> "circle", cx |-> toFixed2(t.args[1]), cy |-> toFixed2(t.args[2]),
             r |-> toFixed2(t.args[3] \div 2), fill |-> fillAttr]

\* The tiles draw and exportSVG go through: numRows * numCols.
TileCount(P) ==
  ((CanvasWidth + P.baseTileSize + P.tileSpacing - 1) \div (P.baseTileSize + P.tileSpacing) + 1)
  * ((CanvasHeight + P.baseTileSize + P.tileSpacing - 1) \div (P.baseTileSize + P.tileSpacing) + 1)

\* C30: on the tiling page draw and exportSVG both seed the generator with
\* randomSeed and make four random calls for every tile of the grid, drawn or
\* not (size variation, x offset, y offset, fill decision): after either the
\* generator is 4 * numRows * numCols calls past the seed, and the document
\* holds one element for every tile on the canvas, in the same order, with
\* the tile's position and size (written with toFixed(2)) and its fill.
C30_ExportedTilesAreDrawnTiles ==
  (page = "tiling" /\ p5Ready) =>
    /\ randomState = lcgAfterMany(randomSeed(params.randomSeed), 4 * TileCount(params))
    /\ emitted # NoDoc =>
         /\ Len(emitted.elements) = Len(rendered.tiles)
         /\ \A n \in 1..Len(rendered.tiles) : emitted.elements[n] = AsWritten(rendered.tiles[n])
         /\ emitted.strokeWidth = rendered.strokeWeight

\* An export of a canvas on which some tiles of the grid were left out, some
\* filled and some not.
C30_Witness ==
  /\ page = "tiling"
  /\ emitted # NoDoc
  /\ Len(emitted.elements) > 0
  /\ Len(emitted.elements) < TileCount(params)
  /\ \E n, k \in 1..Len(rendered.tiles) : rendered.tiles[n].fill /\ ~rendered.tiles[k].fill
  /\ \E n \in 1..Len(emitted.elements) :
       emitted.elements[n].tag = "rect" /\ emitted.elements[n].x * 10 # rendered.tiles[n].args[1]

====
